---- MODULE Spec2Model ----
(***************************************************************************)
(* Model of the consultation blueprint: the Governance component           *)
(* (src/src/governance.rs) and the VoteDelegation component                *)
(* (src/src/vote_delegation.rs), with the shared types of src/src/lib.rs.  *)
(*                                                                         *)
(* Every public method is one operator that takes the component state and  *)
(* the call's inputs and returns the outcome: the panic message (or Ok),   *)
(* the returned value and the component state the statements of the method *)
(* produce.  A panic aborts the ledger transaction, so the state that is   *)
(* committed after a panic is the state before the call (Commit).          *)
(***************************************************************************)
EXTENDS Integers, Sequences, FiniteSets, TLC

VARIABLES
    now,                       \* Clock::current_time_rounded_to_seconds()
    governance_parameters,     \* Governance.governance_parameters
    temperature_checks,        \* Governance.temperature_checks (id -> TemperatureCheck)
    temperature_check_count,   \* Governance.temperature_check_count
    proposals,                 \* Governance.proposals (id -> Proposal)
    proposal_count,            \* Governance.proposal_count
    delegatees,                \* VoteDelegation.delegatees (delegatee -> delegator -> fraction)
    delegators,                \* VoteDelegation.delegators (delegator -> Vec<Delegation>)
    calls,                     \* the number of calls that returned, clock advances included
    last,                      \* the last call that returned: method, inputs, outcome
    history                    \* what the calls that returned did, for the properties

govVars == <<governance_parameters, temperature_checks, temperature_check_count,
             proposals, proposal_count>>
delVars == <<delegatees, delegators>>
vars == <<now, governance_parameters, temperature_checks, temperature_check_count,
          proposals, proposal_count, delegatees, delegators, calls, last, history>>

----------------------------------------------------------------------------
(* Bounds of the model *)

\* calls that return in one behaviour: of both components with the clock
\* advances, and of the VoteDelegation component
MaxCalls == 4
MaxDelegationCalls == 3
\* days the clock runs past the instantiation
MaxDay == 1

----------------------------------------------------------------------------
(* Shared values *)

Accounts == {"a1", "a2", "a3"}
\* the accounts that vote, and the accounts that delegate
Voters == {"a1", "a2"}
Delegators == {"a1", "a2"}
Delegatees == {"a2", "a3"}

\* Option::None and Option::Some
None == <<>>
Some(x) == <<x>>

\* the outcome of a call that did not panic
Ok == "Ok"

\* Instant::add_days: instants are seconds, a day is 24 * 60 * 60 of them
SecondsPerDay == 24 * 60 * 60
add_days_back(instant, days) == instant - days * SecondsPerDay
add_days(instant, days) == instant + days * SecondsPerDay

\* the instants at which the model looks at the clock: the instantiation, and
\* the last second and the end of each day after it
TimePoints == {0} \cup {d * SecondsPerDay - e : d \in 1..MaxDay, e \in {0, 1}}

MAX_ATTACHMENTS == 10
MAX_VOTE_OPTIONS == 10
\* declared as the maximum number of delegations of one account
MAX_DELEGATIONS == 50

\* Vec<ProposalVoteOption> with the ids 0..n-1
VoteOptions(n) == [i \in 1..n |-> [id |-> i - 1, label |-> "option"]]
\* Vec<File> of n attachments
Files(n) == [i \in 1..n |-> [kvs_address |-> "kvs", component_address |-> "storage",
                             file_hash |-> "hash"]]

TemperatureCheckDraft(title, description, nOptions, nAttachments, max_selections) ==
    [title |-> title, description |-> description,
     vote_options |-> VoteOptions(nOptions), attachments |-> Files(nAttachments),
     rfc_url |-> "https://radixtalk.com/proposal/123",
     max_selections |-> max_selections]

\* drafts that pass the validation of make_temperature_check
ValidDrafts ==
    { TemperatureCheckDraft("Test Proposal", "A test proposal description", 2, 0, None),
      TemperatureCheckDraft("Multi", "A multiple choice proposal", MAX_VOTE_OPTIONS,
                            MAX_ATTACHMENTS, Some(2)) }
\* drafts that break one constraint each
InvalidDrafts ==
    { TemperatureCheckDraft("", "A test proposal description", 2, 0, None),
      TemperatureCheckDraft("Test Proposal", "", 2, 0, None),
      TemperatureCheckDraft("Test Proposal", "A test proposal description", 0, 0, None),
      TemperatureCheckDraft("Test Proposal", "A test proposal description",
                            MAX_VOTE_OPTIONS + 1, 0, None),
      TemperatureCheckDraft("Test Proposal", "A test proposal description", 2,
                            MAX_ATTACHMENTS + 1, None) }
Drafts == ValidDrafts \cup InvalidDrafts

\* the values instantiate and update_governance_parameters are called with
ParameterSets ==
    { [temperature_check_days |-> 1, temperature_check_quorum |-> 1000,
       temperature_check_approval_threshold |-> 50,
       proposal_length_days |-> 1, proposal_quorum |-> 5000,
       proposal_approval_threshold |-> 60],
      [temperature_check_days |-> 0, temperature_check_quorum |-> 2000,
       temperature_check_approval_threshold |-> 70,
       proposal_length_days |-> 2, proposal_quorum |-> 6000,
       proposal_approval_threshold |-> 80] }

TemperatureCheckVote == {"For", "Against"}

\* KeyValueStore::insert
Insert(kvs, key, value) == [k \in DOMAIN kvs \cup {key} |-> IF k = key THEN value ELSE kvs[k]]
\* KeyValueStore::remove
Remove_kept(kvs, key) == kvs
Remove(kvs, key) == [k \in DOMAIN kvs \ {key} |-> kvs[k]]
\* KeyValueStore::new
EmptyKvs == [k \in {} |-> None]

\* a panic aborts the transaction: nothing the call wrote is committed
Commit(before, err, after) == IF err = Ok THEN after ELSE before

----------------------------------------------------------------------------
(* Governance component *)

Governance == [governance_parameters |-> governance_parameters,
               temperature_checks |-> temperature_checks,
               temperature_check_count |-> temperature_check_count,
               proposals |-> proposals,
               proposal_count |-> proposal_count]

\* Runtime::assert_access_rule(account.get_owner_role().rule): the rule of the
\* account is satisfied when the transaction carries the account's proof
assert_access_rule_any(account, proofs) == TRUE
assert_access_rule(account, proofs) == account \in proofs

\* self.temperature_check_count += 1, self.proposal_count += 1
increment_stuck(count) == count
increment_twice(count) == count + 2
increment(count) == count + 1

\* the same without the check of the number of attachments
make_temperature_check_any_attachments(self, draft, clock) ==
    LET err == IF draft.title = "" THEN "Temperature check title cannot be empty"
               ELSE IF draft.description = ""
                    THEN "Temperature check description cannot be empty"
               ELSE IF Len(draft.vote_options) = 0
                    THEN "Temperature check must have at least one vote option"
               ELSE IF ~(Len(draft.vote_options) <= MAX_VOTE_OPTIONS)
                    THEN "Too many vote options"
               ELSE Ok
        id == self.temperature_check_count
        deadline == add_days(clock, self.governance_parameters.temperature_check_days)
        temperature_check ==
            [title |-> draft.title,
             description |-> draft.description,
             vote_options |-> draft.vote_options,
             attachments |-> draft.attachments,
             rfc_url |-> draft.rfc_url,
             quorum |-> self.governance_parameters.temperature_check_quorum,
             votes |-> EmptyKvs,
             approval_threshold |->
                 self.governance_parameters.temperature_check_approval_threshold,
             start |-> clock,
             deadline |-> deadline,
             elevated_proposal_id |-> None]
        after == [self EXCEPT
                    !.temperature_check_count = increment(id),
                    !.temperature_checks = Insert(self.temperature_checks, id,
                                                  temperature_check)]
    IN  [err |-> err, ret |-> IF err = Ok THEN Some(id) ELSE None,
         self |-> Commit(self, err, after)]

make_temperature_check(self, draft, clock) ==
    LET err == IF draft.title = "" THEN "Temperature check title cannot be empty"
               ELSE IF draft.description = ""
                    THEN "Temperature check description cannot be empty"
               ELSE IF Len(draft.vote_options) = 0
                    THEN "Temperature check must have at least one vote option"
               ELSE IF ~(Len(draft.vote_options) <= MAX_VOTE_OPTIONS)
                    THEN "Too many vote options"
               ELSE IF ~(Len(draft.attachments) <= MAX_ATTACHMENTS)
                    THEN "Too many attachments"
               ELSE Ok
        id == self.temperature_check_count
        deadline == add_days(clock, self.governance_parameters.temperature_check_days)
        temperature_check ==
            [title |-> draft.title,
             description |-> draft.description,
             vote_options |-> draft.vote_options,
             attachments |-> draft.attachments,
             rfc_url |-> draft.rfc_url,
             quorum |-> self.governance_parameters.temperature_check_quorum,
             votes |-> EmptyKvs,
             approval_threshold |->
                 self.governance_parameters.temperature_check_approval_threshold,
             start |-> clock,
             deadline |-> deadline,
             elevated_proposal_id |-> None]
        after == [self EXCEPT
                    !.temperature_check_count = increment(id),
                    !.temperature_checks = Insert(self.temperature_checks, id,
                                                  temperature_check)]
    IN  [err |-> err, ret |-> IF err = Ok THEN Some(id) ELSE None,
         self |-> Commit(self, err, after)]

\* enable_method_auth!: make_proposal and update_governance_parameters are
\* restricted to the owner role, which the owner badge satisfies
restrict_to_owner_any(badge) == TRUE
restrict_to_owner(badge) == badge

\* tc.elevated_proposal_id.is_none()
not_elevated_unchecked(tc) == TRUE
not_elevated(tc) == tc.elevated_proposal_id = None

\* the same with the proposal counter advanced before the lookup
make_proposal_unknown_counted(self, badge, temperature_check_id, clock) ==
    LET found == temperature_check_id \in DOMAIN self.temperature_checks
        tc == self.temperature_checks[temperature_check_id]
        err == IF ~restrict_to_owner(badge) THEN "Unauthorized"
               ELSE IF ~found THEN "Temperature check not found"
               ELSE IF ~not_elevated(tc)
                    THEN "Temperature check has already been elevated to a proposal"
               ELSE Ok
        proposal_id == self.proposal_count
        deadline == add_days(clock, self.governance_parameters.proposal_length_days)
        proposal ==
            [title |-> tc.title,
             description |-> tc.description,
             vote_options |-> tc.vote_options,
             attachments |-> tc.attachments,
             rfc_url |-> tc.rfc_url,
             quorum |-> self.governance_parameters.proposal_quorum,
             votes |-> EmptyKvs,
             approval_threshold |-> self.governance_parameters.proposal_approval_threshold,
             start |-> clock,
             deadline |-> deadline,
             temperature_check_id |-> temperature_check_id]
        after == [self EXCEPT
                    !.proposal_count = increment(proposal_id),
                    !.temperature_checks[temperature_check_id].elevated_proposal_id =
                        Some(proposal_id),
                    !.proposals = Insert(self.proposals, proposal_id, proposal)]
    IN  [err |-> err, ret |-> IF err = Ok THEN Some(proposal_id) ELSE None,
         self |-> IF restrict_to_owner(badge) /\ ~found
                  THEN [self EXCEPT !.proposal_count = increment(proposal_id)]
                  ELSE Commit(self, err, after)]

\* the same without the write of elevated_proposal_id
make_proposal_unmarked(self, badge, temperature_check_id, clock) ==
    LET found == temperature_check_id \in DOMAIN self.temperature_checks
        tc == self.temperature_checks[temperature_check_id]
        err == IF ~restrict_to_owner(badge) THEN "Unauthorized"
               ELSE IF ~found THEN "Temperature check not found"
               ELSE IF ~not_elevated(tc)
                    THEN "Temperature check has already been elevated to a proposal"
               ELSE Ok
        proposal_id == self.proposal_count
        deadline == add_days(clock, self.governance_parameters.proposal_length_days)
        proposal ==
            [title |-> tc.title,
             description |-> tc.description,
             vote_options |-> tc.vote_options,
             attachments |-> tc.attachments,
             rfc_url |-> tc.rfc_url,
             quorum |-> self.governance_parameters.proposal_quorum,
             votes |-> EmptyKvs,
             approval_threshold |-> self.governance_parameters.proposal_approval_threshold,
             start |-> clock,
             deadline |-> deadline,
             temperature_check_id |-> temperature_check_id]
        after == [self EXCEPT
                    !.proposal_count = increment(proposal_id),
                    !.proposals = Insert(self.proposals, proposal_id, proposal)]
    IN  [err |-> err, ret |-> IF err = Ok THEN Some(proposal_id) ELSE None,
         self |-> Commit(self, err, after)]

make_proposal(self, badge, temperature_check_id, clock) ==
    LET found == temperature_check_id \in DOMAIN self.temperature_checks
        tc == self.temperature_checks[temperature_check_id]
        err == IF ~restrict_to_owner(badge) THEN "Unauthorized"
               ELSE IF ~found THEN "Temperature check not found"
               ELSE IF ~not_elevated(tc)
                    THEN "Temperature check has already been elevated to a proposal"
               ELSE Ok
        proposal_id == self.proposal_count
        deadline == add_days(clock, self.governance_parameters.proposal_length_days)
        proposal ==
            [title |-> tc.title,
             description |-> tc.description,
             vote_options |-> tc.vote_options,
             attachments |-> tc.attachments,
             rfc_url |-> tc.rfc_url,
             quorum |-> self.governance_parameters.proposal_quorum,
             votes |-> EmptyKvs,
             approval_threshold |-> self.governance_parameters.proposal_approval_threshold,
             start |-> clock,
             deadline |-> deadline,
             temperature_check_id |-> temperature_check_id]
        after == [self EXCEPT
                    !.proposal_count = increment(proposal_id),
                    !.temperature_checks[temperature_check_id].elevated_proposal_id =
                        Some(proposal_id),
                    !.proposals = Insert(self.proposals, proposal_id, proposal)]
    IN  [err |-> err, ret |-> IF err = Ok THEN Some(proposal_id) ELSE None,
         self |-> Commit(self, err, after)]

\* Instant::compare(_, TimeComparisonOperator::Gte) and (_, Lt)
compare_gte(a, b) == a >= b
compare_lt_inclusive(a, b) == a <= b
compare_lt_always(a, b) == TRUE
compare_lt(a, b) == a < b

\* votes.get(&account).is_none()
has_not_voted_unchecked(votes, account) == TRUE
has_not_voted(votes, account) == account \notin DOMAIN votes

\* the same with votes refused once the temperature check is elevated
vote_on_temperature_check_until_elevated(self, proofs, account, temperature_check_id, vote, clock) ==
    LET found == temperature_check_id \in DOMAIN self.temperature_checks
        tc == self.temperature_checks[temperature_check_id]
        err == IF ~assert_access_rule(account, proofs) THEN "Unauthorized"
               ELSE IF ~found THEN "Temperature check not found"
               ELSE IF ~compare_gte(clock, tc.start) THEN "Voting has not started yet"
               ELSE IF ~compare_lt(clock, tc.deadline) THEN "Voting has ended"
               ELSE IF ~not_elevated(tc) THEN "Voting has ended"
               ELSE IF ~has_not_voted(tc.votes, account)
                    THEN "Account has already voted on this temperature check"
               ELSE Ok
        after == [self EXCEPT !.temperature_checks[temperature_check_id].votes =
                                  Insert(tc.votes, account, vote)]
    IN  [err |-> err, ret |-> None, self |-> Commit(self, err, after)]

vote_on_temperature_check(self, proofs, account, temperature_check_id, vote, clock) ==
    LET found == temperature_check_id \in DOMAIN self.temperature_checks
        tc == self.temperature_checks[temperature_check_id]
        err == IF ~assert_access_rule(account, proofs) THEN "Unauthorized"
               ELSE IF ~found THEN "Temperature check not found"
               ELSE IF ~compare_gte(clock, tc.start) THEN "Voting has not started yet"
               ELSE IF ~compare_lt(clock, tc.deadline) THEN "Voting has ended"
               ELSE IF ~has_not_voted(tc.votes, account)
                    THEN "Account has already voted on this temperature check"
               ELSE Ok
        after == [self EXCEPT !.temperature_checks[temperature_check_id].votes =
                                  Insert(tc.votes, account, vote)]
    IN  [err |-> err, ret |-> None, self |-> Commit(self, err, after)]

\* proposal.vote_options.iter().any(|opt| opt.id == vote)
any_option_unchecked(vote_options, vote) == TRUE
any_option(vote_options, vote) == \E i \in 1..Len(vote_options) : vote_options[i].id = vote

\* The method takes one ProposalVoteOptionId: a request that carries any other
\* number of option ids does not match its signature and is rejected before
\* the body runs.  The id is recorded as the voter's entry of Proposal.votes.
vote_on_proposal(self, proofs, account, proposal_id, selection, clock) ==
    LET found == proposal_id \in DOMAIN self.proposals
        proposal == self.proposals[proposal_id]
        vote == selection[1]
        err == IF Len(selection) # 1 THEN "Arguments do not match the method"
               ELSE IF ~assert_access_rule(account, proofs) THEN "Unauthorized"
               ELSE IF ~found THEN "Proposal not found"
               ELSE IF ~compare_gte(clock, proposal.start) THEN "Voting has not started yet"
               ELSE IF ~compare_lt(clock, proposal.deadline) THEN "Voting has ended"
               ELSE IF ~any_option(proposal.vote_options, vote) THEN "Invalid vote option"
               ELSE IF ~has_not_voted(proposal.votes, account)
                    THEN "Account has already voted on this proposal"
               ELSE Ok
        after == [self EXCEPT !.proposals[proposal_id].votes =
                                  Insert(proposal.votes, account, <<vote>>)]
    IN  [err |-> err, ret |-> None, self |-> Commit(self, err, after)]

get_governance_parameters(self) == self.governance_parameters
get_temperature_check_count(self) == self.temperature_check_count
get_proposal_count(self) == self.proposal_count

\* the same, the new quorums and thresholds also written into the stored ballots
update_governance_parameters_retroactive(self, badge, new_params) ==
    LET err == IF ~restrict_to_owner(badge) THEN "Unauthorized" ELSE Ok
        after == [self EXCEPT
                    !.governance_parameters = new_params,
                    !.temperature_checks =
                        [t \in DOMAIN @ |->
                            [@[t] EXCEPT
                               !.quorum = new_params.temperature_check_quorum,
                               !.approval_threshold =
                                   new_params.temperature_check_approval_threshold]],
                    !.proposals =
                        [p \in DOMAIN @ |->
                            [@[p] EXCEPT
                               !.quorum = new_params.proposal_quorum,
                               !.approval_threshold =
                                   new_params.proposal_approval_threshold]]]
    IN  [err |-> err, ret |-> None, self |-> Commit(self, err, after)]

update_governance_parameters(self, badge, new_params) ==
    LET err == IF ~restrict_to_owner(badge) THEN "Unauthorized" ELSE Ok
        after == [self EXCEPT !.governance_parameters = new_params]
    IN  [err |-> err, ret |-> None, self |-> Commit(self, err, after)]

\* the error kinds of the design, by panic message
ErrorKind(err) ==
    CASE err = Ok -> Ok
      [] err \in {"Unauthorized"} -> "NotAuthorized"
      [] err \in {"Temperature check not found", "Proposal not found",
                  "No delegation found to the specified delegatee",
                  "No delegations found for this account"} -> "NotFound"
      [] err \in {"Voting has not started yet", "Voting has ended"} -> "WindowClosed"
      [] err \in {"Account has already voted on this temperature check",
                  "Account has already voted on this proposal",
                  "Temperature check has already been elevated to a proposal"}
            -> "AlreadyRecorded"
      [] err \in {"Total delegation cannot exceed 100%"} -> "CapExceeded"
      [] OTHER -> "ValidationError"

----------------------------------------------------------------------------
(* VoteDelegation component *)

\* Decimal, in hundredths: Decimal::ZERO, Decimal::ONE
DecimalZero == 0
DecimalOne == 100

\* Instant::compare(_, TimeComparisonOperator::Gt)
compare_gt_inclusive(a, b) == a >= b
compare_gt(a, b) == a > b

VoteDelegation == [delegatees |-> delegatees, delegators |-> delegators]

\* Vec::retain(|d| d.delegatee != delegatee)
retain_all(delegations, delegatee) == delegations
RECURSIVE retain_other(_, _)
retain_other(delegations, delegatee) ==
    IF delegations = <<>> THEN <<>>
    ELSE IF Head(delegations).delegatee # delegatee
         THEN <<Head(delegations)>> \o retain_other(Tail(delegations), delegatee)
         ELSE retain_other(Tail(delegations), delegatee)

\* the loop of make_delegation over the delegator's entries: the fractions of
\* the entries that are still valid and are not to the delegatee of the call
total_delegated_none(delegations, delegatee, clock) == DecimalZero
RECURSIVE total_delegated_with_expired(_, _, _)
total_delegated_with_expired(delegations, delegatee, clock) ==
    IF delegations = <<>> THEN DecimalZero
    ELSE LET delegation == Head(delegations)
             rest == total_delegated_with_expired(Tail(delegations), delegatee, clock)
         IN  IF delegation.delegatee = delegatee
             THEN rest
             ELSE rest + delegation.fraction
RECURSIVE total_delegated_with_replaced(_, _, _)
total_delegated_with_replaced(delegations, delegatee, clock) ==
    IF delegations = <<>> THEN DecimalZero
    ELSE LET delegation == Head(delegations)
             rest == total_delegated_with_replaced(Tail(delegations), delegatee, clock)
         IN  IF compare_gt(delegation.valid_until, clock)
             THEN rest + delegation.fraction
             ELSE rest
\* the loop left at the entry to the delegatee of the call
RECURSIVE total_delegated_break(_, _, _)
total_delegated_break(delegations, delegatee, clock) ==
    IF delegations = <<>> THEN DecimalZero
    ELSE LET delegation == Head(delegations)
             rest == total_delegated_break(Tail(delegations), delegatee, clock)
         IN  IF compare_gt(delegation.valid_until, clock)
             THEN IF delegation.delegatee = delegatee
                  THEN DecimalZero
                  ELSE rest + delegation.fraction
             ELSE rest
RECURSIVE total_delegated(_, _, _)
total_delegated(delegations, delegatee, clock) ==
    IF delegations = <<>> THEN DecimalZero
    ELSE LET delegation == Head(delegations)
             rest == total_delegated(Tail(delegations), delegatee, clock)
         IN  IF compare_gt(delegation.valid_until, clock)
             THEN IF delegation.delegatee = delegatee
                  THEN rest
                  ELSE rest + delegation.fraction
             ELSE rest

\* the update of the delegatees map: the fraction of the delegator under the
\* delegatee, in a map that is created when the delegatee has none
insert_delegator_once(delegatees_map, delegatee, delegator, fraction) ==
    IF delegatee \notin DOMAIN delegatees_map
    THEN Insert(delegatees_map, delegatee, Insert(EmptyKvs, delegator, fraction))
    ELSE IF delegator \in DOMAIN delegatees_map[delegatee]
         THEN delegatees_map
         ELSE [delegatees_map EXCEPT ![delegatee] = Insert(@, delegator, fraction)]
\* the same with the fraction written under every delegatee of the map
insert_delegator_shared(delegatees_map, delegatee, delegator, fraction) ==
    LET delegatee_exists == delegatee \in DOMAIN delegatees_map
        created == IF ~delegatee_exists
                   THEN Insert(delegatees_map, delegatee, EmptyKvs)
                   ELSE delegatees_map
    IN  [k \in DOMAIN created |-> Insert(created[k], delegator, fraction)]
insert_delegator(delegatees_map, delegatee, delegator, fraction) ==
    LET delegatee_exists == delegatee \in DOMAIN delegatees_map
        created == IF ~delegatee_exists
                   THEN Insert(delegatees_map, delegatee, EmptyKvs)
                   ELSE delegatees_map
    IN  [created EXCEPT ![delegatee] = Insert(@, delegator, fraction)]

make_delegation(self, proofs, delegator, delegatee, fraction, valid_until, clock) ==
    LET has_existing == delegator \in DOMAIN self.delegators
        existing_delegations == IF has_existing THEN self.delegators[delegator] ELSE <<>>
        total == total_delegated(existing_delegations, delegatee, clock)
        err == IF ~assert_access_rule(delegator, proofs) THEN "Unauthorized"
               ELSE IF ~(fraction > DecimalZero /\ fraction <= DecimalOne)
                    THEN "Fraction must be between 0 (exclusive) and 1 (inclusive)"
               ELSE IF ~(delegator # delegatee) THEN "Cannot delegate to yourself"
               ELSE IF ~compare_gt(valid_until, clock)
                    THEN "Delegation must be valid for some time in the future"
               ELSE IF ~(total + fraction <= DecimalOne)
                    THEN "Total delegation cannot exceed 100%"
               ELSE Ok
        new_delegation == [delegatee |-> delegatee, fraction |-> fraction,
                           valid_until |-> valid_until]
        delegators1 ==
            IF has_existing
            THEN [self.delegators EXCEPT ![delegator] =
                      Append(retain_other(@, delegatee), new_delegation)]
            ELSE Insert(self.delegators, delegator, <<new_delegation>>)
        delegatees1 == insert_delegator(self.delegatees, delegatee, delegator, fraction)
        after == [delegatees |-> delegatees1, delegators |-> delegators1]
    IN  [err |-> err, ret |-> None, self |-> Commit(self, err, after)]

\* the same without the assertion that an entry was removed
remove_delegation_unchecked(self, proofs, delegator, delegatee) ==
    LET has_existing == delegator \in DOMAIN self.delegators
        err == IF ~assert_access_rule(delegator, proofs) THEN "Unauthorized"
               ELSE IF ~has_existing THEN "No delegations found for this account"
               ELSE Ok
        delegators1 == [self.delegators EXCEPT ![delegator] = retain_other(@, delegatee)]
        delegatees1 == IF delegatee \in DOMAIN self.delegatees
                       THEN [self.delegatees EXCEPT ![delegatee] = Remove(@, delegator)]
                       ELSE self.delegatees
        after == [delegatees |-> delegatees1, delegators |-> delegators1]
    IN  [err |-> err, ret |-> None, self |-> Commit(self, err, after)]

remove_delegation(self, proofs, delegator, delegatee) ==
    LET has_existing == delegator \in DOMAIN self.delegators
        delegations == self.delegators[delegator]
        initial_len == Len(delegations)
        retained == retain_other(delegations, delegatee)
        err == IF ~assert_access_rule(delegator, proofs) THEN "Unauthorized"
               ELSE IF ~has_existing THEN "No delegations found for this account"
               ELSE IF ~(Len(retained) < initial_len)
                    THEN "No delegation found to the specified delegatee"
               ELSE Ok
        delegators1 == [self.delegators EXCEPT ![delegator] = retained]
        delegatees1 == IF delegatee \in DOMAIN self.delegatees
                       THEN [self.delegatees EXCEPT ![delegatee] = Remove(@, delegator)]
                       ELSE self.delegatees
        after == [delegatees |-> delegatees1, delegators |-> delegators1]
    IN  [err |-> err, ret |-> None, self |-> Commit(self, err, after)]

get_delegations(self, delegator) ==
    IF delegator \in DOMAIN self.delegators THEN self.delegators[delegator] ELSE <<>>

\* the same with the two keys in the other order
get_delegatee_delegators_swapped(self, delegatee, delegator) ==
    IF delegator \in DOMAIN self.delegatees
    THEN IF delegatee \in DOMAIN self.delegatees[delegator]
         THEN Some(self.delegatees[delegator][delegatee])
         ELSE None
    ELSE None

get_delegatee_delegators(self, delegatee, delegator) ==
    IF delegatee \in DOMAIN self.delegatees
    THEN IF delegator \in DOMAIN self.delegatees[delegatee]
         THEN Some(self.delegatees[delegatee][delegator])
         ELSE None
    ELSE None

----------------------------------------------------------------------------
(* The bodies of the methods, statement by statement: the message a body
   stops with and the component state it has written when it stops, before
   the transaction commits or aborts.  Every panic the methods raise at a
   clock reading of the ledger is followed; the unwrap of add_days
   (governance.rs 89 and 129) fails only past the range of Instant. *)

Stop(err, self) == [err |-> err, self |-> self]

make_temperature_check_body(self, draft, clock) ==
    IF draft.title = "" THEN Stop("Temperature check title cannot be empty", self)
    ELSE IF draft.description = ""
    THEN Stop("Temperature check description cannot be empty", self)
    ELSE IF Len(draft.vote_options) = 0
    THEN Stop("Temperature check must have at least one vote option", self)
    ELSE IF ~(Len(draft.vote_options) <= MAX_VOTE_OPTIONS)
    THEN Stop("Too many vote options", self)
    ELSE IF ~(Len(draft.attachments) <= MAX_ATTACHMENTS)
    THEN Stop("Too many attachments", self)
    ELSE LET id == self.temperature_check_count
             counted == [self EXCEPT !.temperature_check_count = increment(id)]
             \* the record of the literal, as make_temperature_check builds it
             temperature_check ==
                 make_temperature_check(self, draft, clock).self.temperature_checks[id]
         IN  Stop(Ok, [counted EXCEPT !.temperature_checks =
                                          Insert(@, id, temperature_check)])

\* the same with the counter advanced before the lookup
make_proposal_body_counted_first(self, badge, temperature_check_id, clock) ==
    IF ~restrict_to_owner(badge) THEN Stop("Unauthorized", self)
    ELSE LET proposal_id == self.proposal_count
             counted == [self EXCEPT !.proposal_count = increment(proposal_id)]
         IN  IF temperature_check_id \notin DOMAIN counted.temperature_checks
             THEN Stop("Temperature check not found", counted)
             ELSE IF ~not_elevated(counted.temperature_checks[temperature_check_id])
             THEN Stop("Temperature check has already been elevated to a proposal",
                       counted)
             ELSE LET proposal ==
                          make_proposal(self, badge, temperature_check_id, clock)
                              .self.proposals[proposal_id]
                      marked == [counted EXCEPT
                                   !.temperature_checks[temperature_check_id]
                                       .elevated_proposal_id = Some(proposal_id)]
                  IN  Stop(Ok, [marked EXCEPT !.proposals =
                                                  Insert(@, proposal_id, proposal)])

make_proposal_body(self, badge, temperature_check_id, clock) ==
    IF ~restrict_to_owner(badge) THEN Stop("Unauthorized", self)
    ELSE IF temperature_check_id \notin DOMAIN self.temperature_checks
    THEN Stop("Temperature check not found", self)
    ELSE IF ~not_elevated(self.temperature_checks[temperature_check_id])
    THEN Stop("Temperature check has already been elevated to a proposal", self)
    ELSE LET proposal_id == self.proposal_count
             counted == [self EXCEPT !.proposal_count = increment(proposal_id)]
             \* the record of the literal, as make_proposal builds it
             proposal ==
                 make_proposal(self, badge, temperature_check_id, clock)
                     .self.proposals[proposal_id]
             marked == [counted EXCEPT
                          !.temperature_checks[temperature_check_id]
                              .elevated_proposal_id = Some(proposal_id)]
         IN  Stop(Ok, [marked EXCEPT !.proposals = Insert(@, proposal_id, proposal)])

vote_on_temperature_check_body(self, proofs, account, temperature_check_id, vote, clock) ==
    IF ~assert_access_rule(account, proofs) THEN Stop("Unauthorized", self)
    ELSE IF temperature_check_id \notin DOMAIN self.temperature_checks
    THEN Stop("Temperature check not found", self)
    ELSE LET tc == self.temperature_checks[temperature_check_id]
         IN  IF ~compare_gte(clock, tc.start) THEN Stop("Voting has not started yet", self)
             ELSE IF ~compare_lt(clock, tc.deadline) THEN Stop("Voting has ended", self)
             ELSE IF ~has_not_voted(tc.votes, account)
             THEN Stop("Account has already voted on this temperature check", self)
             ELSE Stop(Ok, [self EXCEPT !.temperature_checks[temperature_check_id].votes =
                                            Insert(@, account, vote)])

vote_on_proposal_body(self, proofs, account, proposal_id, selection, clock) ==
    IF Len(selection) # 1 THEN Stop("Arguments do not match the method", self)
    ELSE IF ~assert_access_rule(account, proofs) THEN Stop("Unauthorized", self)
    ELSE IF proposal_id \notin DOMAIN self.proposals THEN Stop("Proposal not found", self)
    ELSE LET proposal == self.proposals[proposal_id]
             vote == selection[1]
         IN  IF ~compare_gte(clock, proposal.start)
             THEN Stop("Voting has not started yet", self)
             ELSE IF ~compare_lt(clock, proposal.deadline) THEN Stop("Voting has ended", self)
             ELSE IF ~any_option(proposal.vote_options, vote)
             THEN Stop("Invalid vote option", self)
             ELSE IF ~has_not_voted(proposal.votes, account)
             THEN Stop("Account has already voted on this proposal", self)
             ELSE Stop(Ok, [self EXCEPT !.proposals[proposal_id].votes =
                                            Insert(@, account, <<vote>>)])

update_governance_parameters_body(self, badge, new_params) ==
    IF ~restrict_to_owner(badge) THEN Stop("Unauthorized", self)
    ELSE Stop(Ok, [self EXCEPT !.governance_parameters = new_params])

make_delegation_body(self, proofs, delegator, delegatee, fraction, valid_until, clock) ==
    IF ~assert_access_rule(delegator, proofs) THEN Stop("Unauthorized", self)
    ELSE IF ~(fraction > DecimalZero /\ fraction <= DecimalOne)
    THEN Stop("Fraction must be between 0 (exclusive) and 1 (inclusive)", self)
    ELSE IF ~(delegator # delegatee) THEN Stop("Cannot delegate to yourself", self)
    ELSE IF ~compare_gt(valid_until, clock)
    THEN Stop("Delegation must be valid for some time in the future", self)
    ELSE IF ~(total_delegated(get_delegations(self, delegator), delegatee, clock) + fraction
                  <= DecimalOne)
    THEN Stop("Total delegation cannot exceed 100%", self)
    ELSE LET new_delegation == [delegatee |-> delegatee, fraction |-> fraction,
                                valid_until |-> valid_until]
             listed ==
                 IF delegator \in DOMAIN self.delegators
                 THEN [self EXCEPT !.delegators[delegator] =
                           Append(retain_other(@, delegatee), new_delegation)]
                 ELSE [self EXCEPT !.delegators =
                           Insert(@, delegator, <<new_delegation>>)]
         IN  Stop(Ok, [listed EXCEPT !.delegatees =
                                         insert_delegator(@, delegatee, delegator, fraction)])

\* the retain comes before the assertion that it removed an entry
remove_delegation_body(self, proofs, delegator, delegatee) ==
    IF ~assert_access_rule(delegator, proofs) THEN Stop("Unauthorized", self)
    ELSE IF delegator \notin DOMAIN self.delegators
    THEN Stop("No delegations found for this account", self)
    ELSE LET initial_len == Len(self.delegators[delegator])
             retained == [self EXCEPT !.delegators[delegator] = retain_other(@, delegatee)]
         IN  IF ~(Len(retained.delegators[delegator]) < initial_len)
             THEN Stop("No delegation found to the specified delegatee", retained)
             ELSE IF delegatee \in DOMAIN retained.delegatees
             THEN Stop(Ok, [retained EXCEPT !.delegatees[delegatee] = Remove(@, delegator)])
             ELSE Stop(Ok, retained)

----------------------------------------------------------------------------
(* The state machine: one action per public method, and the clock *)

\* what the transaction of a call carries: no proof, or the proof of one account
ProofSets == {{}} \cup {{a} : a \in Voters}
DelegatorProofSets == {{}} \cup {{a} : a \in Delegators}

\* the inputs of the delegation calls
FractionInputs == {0 - 50, 0, 40, 50, 60, 100, 101}
\* valid_until: the instantiation, the end of the first day, past the last day
ValidUntilInputs == {0, SecondsPerDay, (MaxDay + 1) * SecondsPerDay}

\* ballot ids a call may name: the stored ones and the next one, never created
IdInputs(count) == 0..count

\* the option ids one proposal vote request carries: none, one (an option of
\* the ballot or not), two (distinct options, a duplicate, one unknown)
SelectionInputs == {<<>>, <<0>>, <<1>>, <<10>>, <<0, 1>>, <<0, 0>>, <<0, 10>>}

\* Runtime::emit_event: no method of either blueprint calls it, and neither
\* blueprint registers an event type, so a call emits no event
emitted_events == <<>>

Call(op, args, r) == [op |-> op, args |-> args, err |-> r.err, ret |-> r.ret,
                      events |-> emitted_events]

\* A call that panics commits nothing: it leaves every variable as it was.
\* A call that returns is recorded in last and counted in calls.
Returns(call, bound, newHistory) ==
    IF call.err = Ok
    THEN /\ calls < bound
         /\ calls' = calls + 1
         /\ last' = call
         /\ history' = newHistory
    ELSE UNCHANGED <<calls, last, history>>

SetGovernance(self) ==
    /\ governance_parameters' = self.governance_parameters
    /\ temperature_checks' = self.temperature_checks
    /\ temperature_check_count' = self.temperature_check_count
    /\ proposals' = self.proposals
    /\ proposal_count' = self.proposal_count

SetVoteDelegation(self) ==
    /\ delegatees' = self.delegatees
    /\ delegators' = self.delegators

Init ==
    /\ now = 0
    /\ governance_parameters \in ParameterSets
    /\ temperature_checks = EmptyKvs
    /\ temperature_check_count = 0
    /\ proposals = EmptyKvs
    /\ proposal_count = 0
    /\ delegatees = EmptyKvs
    /\ delegators = EmptyKvs
    /\ calls = 0
    /\ last = [op |-> "instantiate", args |-> <<>>, err |-> Ok, ret |-> None,
               events |-> emitted_events]
    /\ history = [created |-> <<>>, max_selections |-> <<>>, elevated |-> {},
                  temperature_check_votes |-> {},
                  proposal_votes |-> {}]

MakeTemperatureCheck ==
    \E draft \in Drafts :
        LET r == make_temperature_check(Governance, draft, now)
        IN  /\ SetGovernance(r.self)
            /\ Returns(Call("make_temperature_check", [draft |-> draft], r), MaxCalls,
                       [history EXCEPT !.created = Append(@, r.ret[1]),
                                       !.max_selections = Append(@, draft.max_selections)])
            /\ UNCHANGED <<now, delVars>>

MakeProposal ==
    \E badge \in BOOLEAN, id \in IdInputs(temperature_check_count) :
        LET r == make_proposal(Governance, badge, id, now)
        IN  /\ SetGovernance(r.self)
            /\ Returns(Call("make_proposal", [badge |-> badge, id |-> id], r), MaxCalls,
                       [history EXCEPT !.elevated = @ \cup {[id |-> id, ret |-> r.ret[1],
                                                             at |-> now]}])
            /\ UNCHANGED <<now, delVars>>

VoteOnTemperatureCheck ==
    \E proofs \in ProofSets, account \in Voters, id \in IdInputs(temperature_check_count),
       vote \in TemperatureCheckVote :
        LET r == vote_on_temperature_check(Governance, proofs, account, id, vote, now)
        IN  /\ SetGovernance(r.self)
            /\ Returns(Call("vote_on_temperature_check",
                            [proofs |-> proofs, account |-> account, id |-> id,
                             vote |-> vote], r), MaxCalls,
                       [history EXCEPT !.temperature_check_votes =
                            @ \cup {[account |-> account, id |-> id, vote |-> vote,
                                     at |-> now]}])
            /\ UNCHANGED <<now, delVars>>

VoteOnProposal ==
    \E proofs \in ProofSets, account \in Voters, id \in IdInputs(proposal_count),
       selection \in SelectionInputs :
        LET r == vote_on_proposal(Governance, proofs, account, id, selection, now)
        IN  /\ SetGovernance(r.self)
            /\ Returns(Call("vote_on_proposal",
                            [proofs |-> proofs, account |-> account, id |-> id,
                             selection |-> selection], r), MaxCalls,
                       [history EXCEPT !.proposal_votes =
                            @ \cup {[account |-> account, id |-> id,
                                     selection |-> selection, at |-> now]}])
            /\ UNCHANGED <<now, delVars>>

UpdateGovernanceParameters ==
    \E badge \in BOOLEAN, new_params \in ParameterSets :
        LET r == update_governance_parameters(Governance, badge, new_params)
        IN  /\ SetGovernance(r.self)
            /\ Returns(Call("update_governance_parameters",
                            [badge |-> badge, new_params |-> new_params], r), MaxCalls,
                       history)
            /\ UNCHANGED <<now, delVars>>

\* last also keeps what the reverse index held for the pair before the call
MakeDelegation ==
    \E proofs \in DelegatorProofSets, delegator \in Delegators, delegatee \in Delegatees,
       fraction \in FractionInputs, valid_until \in ValidUntilInputs :
        LET r == make_delegation(VoteDelegation, proofs, delegator, delegatee, fraction,
                                 valid_until, now)
            before == get_delegatee_delegators(VoteDelegation, delegatee, delegator)
        IN  /\ SetVoteDelegation(r.self)
            /\ Returns(Call("make_delegation",
                            [proofs |-> proofs, delegator |-> delegator,
                             delegatee |-> delegatee, fraction |-> fraction,
                             valid_until |-> valid_until, before |-> before], r),
                       MaxDelegationCalls, history)
            /\ UNCHANGED <<now, govVars>>

RemoveDelegation ==
    \E proofs \in DelegatorProofSets, delegator \in Delegators, delegatee \in Delegatees :
        LET r == remove_delegation(VoteDelegation, proofs, delegator, delegatee)
            before == get_delegatee_delegators(VoteDelegation, delegatee, delegator)
        IN  /\ SetVoteDelegation(r.self)
            /\ Returns(Call("remove_delegation",
                            [proofs |-> proofs, delegator |-> delegator,
                             delegatee |-> delegatee, before |-> before], r),
                       MaxDelegationCalls, history)
            /\ UNCHANGED <<now, govVars>>

\* the ledger clock only moves forward
AdvanceClock ==
    \E t \in TimePoints :
        /\ t > now
        /\ calls < MaxCalls
        /\ now' = t
        /\ calls' = calls + 1
        /\ last' = [op |-> "advance_clock", args |-> <<>>, err |-> Ok, ret |-> None,
                    events |-> emitted_events]
        /\ UNCHANGED <<govVars, delVars, history>>

NextGovernance ==
    \/ MakeTemperatureCheck
    \/ MakeProposal
    \/ VoteOnTemperatureCheck
    \/ VoteOnProposal
    \/ UpdateGovernanceParameters
    \/ AdvanceClock

NextVoteDelegation ==
    \/ MakeDelegation
    \/ RemoveDelegation
    \/ AdvanceClock

Next == NextGovernance \/ NextVoteDelegation

\* the Governance component alone, the VoteDelegation component alone, both
SpecGovernance == Init /\ [][NextGovernance]_vars
SpecVoteDelegation == Init /\ [][NextVoteDelegation]_vars
Spec == Init /\ [][Next]_vars

----------------------------------------------------------------------------
(* Properties of the Governance component *)

\* the clock readings at which a call may still be made
LaterTimes == {clock \in TimePoints : clock >= now}

\* the voting window of a stored ballot, as the design states it
WindowOpen(ballot, clock) == ballot.start <= clock /\ clock < ballot.deadline

\* the ids of the options of a stored ballot
OptionIds(ballot) == {ballot.vote_options[i].id : i \in 1..Len(ballot.vote_options)}

\* C1: the k-th make_temperature_check that returns, returns k-1 (the ids start
\* at 0 and rise by one, none is skipped or used twice); a creation that fails
\* takes no id; get_temperature_check_count is the number of creations that
\* returned so far.
C1_SequentialIds ==
    LET n == Len(history.created)
    IN  /\ history.created = [k \in 1..n |-> k - 1]
        /\ get_temperature_check_count(Governance) = n
        /\ DOMAIN temperature_checks = 0..(n - 1)
        /\ \A draft \in Drafts :
             LET r == make_temperature_check(Governance, draft, now)
             IN  IF r.err = Ok
                 THEN /\ r.ret = Some(n)
                      /\ get_temperature_check_count(r.self) = n + 1
                 ELSE /\ r.ret = None
                      /\ get_temperature_check_count(r.self) = n
                      /\ r.self.temperature_checks = temperature_checks

\* three creations have returned, the last one with id 2
C1_Witness ==
    /\ last.op = "make_temperature_check"
    /\ last.ret = Some(2)
    /\ history.created = <<0, 1, 2>>

\* C2: a temperature check is elevated at most once: elevated_proposal_id goes
\* from absent to present by one make_proposal that returned and keeps that
\* value whatever is called afterwards, and every later make_proposal of the
\* owner on that id fails as already recorded, creates no proposal and leaves
\* proposal_count as it was.
C2_ElevatedOnce ==
    /\ \A e1, e2 \in history.elevated : e1.id = e2.id => e1 = e2
    /\ \A e \in history.elevated :
         /\ e.id \in DOMAIN temperature_checks
         /\ temperature_checks[e.id].elevated_proposal_id = Some(e.ret)
    /\ \A t \in DOMAIN temperature_checks :
         temperature_checks[t].elevated_proposal_id # None =>
             /\ \E e \in history.elevated : e.id = t
             /\ \A clock \in LaterTimes :
                  LET r == make_proposal(Governance, TRUE, t, clock)
                  IN  /\ ErrorKind(r.err) = "AlreadyRecorded"
                      /\ r.ret = None
                      /\ r.self.proposals = proposals
                      /\ get_proposal_count(r.self) = proposal_count
                      /\ r.self = Governance

\* a temperature check was elevated, the clock moved on, a vote on it was
\* recorded, and the owner's second make_proposal on it fails
C2_Witness ==
    \E e \in history.elevated :
        /\ now > e.at
        /\ last.op = "vote_on_temperature_check"
        /\ last.args.id = e.id
        /\ make_proposal(Governance, TRUE, e.id, now).err =
               "Temperature check has already been elevated to a proposal"

\* the votes the temperature checks hold are the votes that were recorded, as
\* they were recorded: at most one for an account and a temperature check
TemperatureCheckVotesKept ==
    /\ \A v1, v2 \in history.temperature_check_votes :
         (v1.account = v2.account /\ v1.id = v2.id) => v1 = v2
    /\ \A v \in history.temperature_check_votes :
         /\ v.id \in DOMAIN temperature_checks
         /\ v.account \in DOMAIN temperature_checks[v.id].votes
         /\ temperature_checks[v.id].votes[v.account] = v.vote
    /\ \A t \in DOMAIN temperature_checks : \A a \in DOMAIN temperature_checks[t].votes :
         \E v \in history.temperature_check_votes : v.id = t /\ v.account = a

\* C3 as stated: once an account's vote on a temperature check is recorded,
\* every later vote_on_temperature_check of the account on it fails as already
\* recorded, and the recorded choice stays.
C3_SecondVoteAlreadyRecorded ==
    /\ TemperatureCheckVotesKept
    /\ \A t \in DOMAIN temperature_checks, vote \in TemperatureCheckVote :
         \A a \in DOMAIN temperature_checks[t].votes :
             LET r == vote_on_temperature_check(Governance, {a}, a, t, vote, now)
             IN  /\ ErrorKind(r.err) = "AlreadyRecorded"
                 /\ r.self = Governance

\* C3, amended: once an account's vote on a temperature check is recorded,
\* every later vote_on_temperature_check of the account on it fails, as already
\* recorded while the voting window is open and as window closed from the
\* deadline on, and the temperature check holds one vote of the account, the
\* first choice.
C3_SecondVoteFails ==
    /\ TemperatureCheckVotesKept
    /\ \A t \in DOMAIN temperature_checks, vote \in TemperatureCheckVote,
          clock \in LaterTimes :
         \A a \in DOMAIN temperature_checks[t].votes :
             LET r == vote_on_temperature_check(Governance, {a}, a, t, vote, clock)
             IN  /\ ErrorKind(r.err) =
                        IF WindowOpen(temperature_checks[t], clock)
                        THEN "AlreadyRecorded" ELSE "WindowClosed"
                 /\ r.self = Governance

\* an account voted For at the start of a temperature check, and its vote
\* Against in the open window fails and leaves For
C3_Witness ==
    \E v \in history.temperature_check_votes :
        LET r == vote_on_temperature_check(Governance, {v.account}, v.account, v.id,
                                           "Against", now)
        IN  /\ v.vote = "For"
            /\ v.at = temperature_checks[v.id].start
            /\ WindowOpen(temperature_checks[v.id], now)
            /\ r.err = "Account has already voted on this temperature check"
            /\ r.self.temperature_checks[v.id].votes[v.account] = "For"

\* the votes the proposals hold are the votes that were recorded, as they were
\* recorded: at most one for an account and a proposal
ProposalVotesKept ==
    /\ \A v1, v2 \in history.proposal_votes :
         (v1.account = v2.account /\ v1.id = v2.id) => v1 = v2
    /\ \A v \in history.proposal_votes :
         /\ v.id \in DOMAIN proposals
         /\ v.account \in DOMAIN proposals[v.id].votes
         /\ proposals[v.id].votes[v.account] = v.selection
    /\ \A p \in DOMAIN proposals : \A a \in DOMAIN proposals[p].votes :
         \E v \in history.proposal_votes : v.id = p /\ v.account = a

\* the requests that name one option id
OneOptionInputs == {selection \in SelectionInputs : Len(selection) = 1}

\* C4 as stated: in the open window, a second vote_on_proposal of an account
\* that has a recorded vote fails as already recorded whatever option it
\* names, an option the proposal does not have included, and the recorded vote
\* stays.
C4_SecondVoteAlreadyRecorded ==
    /\ ProposalVotesKept
    /\ \A p \in DOMAIN proposals, selection \in OneOptionInputs :
         \A a \in DOMAIN proposals[p].votes :
             WindowOpen(proposals[p], now) =>
                 LET r == vote_on_proposal(Governance, {a}, a, p, selection, now)
                 IN  /\ ErrorKind(r.err) = "AlreadyRecorded"
                     /\ r.self = Governance

\* C4, amended: in the open window, a second vote_on_proposal of an account
\* that has a recorded vote fails and the recorded vote stays: as already
\* recorded when the option it names is an option of the proposal, as an
\* invalid vote option when it is not.
C4_SecondVoteFails ==
    /\ ProposalVotesKept
    /\ \A p \in DOMAIN proposals, selection \in OneOptionInputs :
         \A a \in DOMAIN proposals[p].votes :
             WindowOpen(proposals[p], now) =>
                 LET r == vote_on_proposal(Governance, {a}, a, p, selection, now)
                 IN  /\ IF selection[1] \in OptionIds(proposals[p])
                        THEN ErrorKind(r.err) = "AlreadyRecorded"
                        ELSE r.err = "Invalid vote option"
                     /\ r.self = Governance

\* an account's vote on a proposal was recorded, and in the open window its
\* second vote fails for an option of the proposal and for an unknown one
C4_Witness ==
    /\ last.op = "vote_on_proposal"
    /\ WindowOpen(proposals[last.args.id], now)
    /\ last.args.account \in DOMAIN proposals[last.args.id].votes
    /\ vote_on_proposal(Governance, {last.args.account}, last.args.account, last.args.id,
                        <<1>>, now).err = "Account has already voted on this proposal"
    /\ vote_on_proposal(Governance, {last.args.account}, last.args.account, last.args.id,
                        <<10>>, now).err = "Invalid vote option"

\* C5: for both kinds of ballot, the vote of an account that carries its proof
\* and has not voted is recorded exactly when start <= now < deadline; before
\* start and from the deadline on it fails as window closed and nothing is
\* recorded; at now = start it is recorded (the window is not empty), at
\* now = deadline it fails.
C5_VotingWindow ==
    /\ \A t \in DOMAIN temperature_checks, vote \in TemperatureCheckVote,
          clock \in TimePoints :
         \A a \in Voters \ DOMAIN temperature_checks[t].votes :
             LET tc == temperature_checks[t]
                 r == vote_on_temperature_check(Governance, {a}, a, t, vote, clock)
             IN  IF tc.start <= clock /\ clock < tc.deadline
                 THEN /\ r.err = Ok
                      /\ r.self.temperature_checks[t].votes = Insert(tc.votes, a, vote)
                 ELSE /\ ErrorKind(r.err) = "WindowClosed"
                      /\ r.self = Governance
    /\ \A p \in DOMAIN proposals, selection \in OneOptionInputs, clock \in TimePoints :
         \A a \in Voters \ DOMAIN proposals[p].votes :
             selection[1] \in OptionIds(proposals[p]) =>
                 LET proposal == proposals[p]
                     r == vote_on_proposal(Governance, {a}, a, p, selection, clock)
                 IN  IF proposal.start <= clock /\ clock < proposal.deadline
                     THEN /\ r.err = Ok
                          /\ r.self.proposals[p].votes = Insert(proposal.votes, a, selection)
                     ELSE /\ ErrorKind(r.err) = "WindowClosed"
                          /\ r.self = Governance

\* a vote on a proposal was recorded at its start, the clock is at its
\* deadline, and the vote of the account that has not voted fails
C5_Witness ==
    \E v \in history.proposal_votes :
        \E a \in Voters \ DOMAIN proposals[v.id].votes :
            /\ v.at = proposals[v.id].start
            /\ now = proposals[v.id].deadline
            /\ vote_on_proposal(Governance, {a}, a, v.id, <<0>>, now).err = "Voting has ended"

\* whether a selection names no option id twice
Distinct(selection) ==
    \A i, j \in 1..Len(selection) : selection[i] = selection[j] => i = j

\* the number of options one vote may select
\* (max_selections of the draft the temperature check of the proposal was
\* created from)
Selections(p) ==
    LET max_selections == history.max_selections[proposals[p].temperature_check_id + 1]
    IN  IF max_selections = None THEN 1 ELSE max_selections[1]

\* C6: in the open window, the vote of an account that has not voted, with k
\* distinct option ids that are all options of the proposal, is recorded, the
\* whole selection, exactly when 1 <= k <= max_selections (k = 1 when
\* max_selections is absent); a selection with a duplicate or an unknown id
\* fails as a validation error.
C6_SelectionBounds ==
    \A p \in DOMAIN proposals, selection \in SelectionInputs :
        \A a \in Voters \ DOMAIN proposals[p].votes :
            WindowOpen(proposals[p], now) =>
                LET r == vote_on_proposal(Governance, {a}, a, p, selection, now)
                    k == Len(selection)
                    valid == \A i \in 1..k : selection[i] \in OptionIds(proposals[p])
                IN  IF Distinct(selection) /\ valid
                    THEN /\ (r.err = Ok) <=> (1 <= k /\ k <= Selections(p))
                         /\ r.err = Ok => r.self.proposals[p].votes[a] = selection
                    ELSE ErrorKind(r.err) = "ValidationError"

----------------------------------------------------------------------------
(* Properties of the VoteDelegation component *)

\* the sum of the fractions of the entries of a list that satisfy a condition,
\* entry by entry
RECURSIVE SumOver(_, _, _)
SumOver(delegations, Counts(_), n) ==
    IF n = 0 THEN 0
    ELSE SumOver(delegations, Counts, n - 1)
         + (IF Counts(delegations[n]) THEN delegations[n].fraction ELSE 0)

\* what a delegator has delegated in entries that are valid after the clock
ActiveFraction(delegator, self, clock) ==
    LET delegations == get_delegations(self, delegator)
        Active(delegation) == delegation.valid_until > clock
    IN  SumOver(delegations, Active, Len(delegations))

\* the same, the entry to one delegatee left out
CommittedElsewhere(delegator, delegatee, self, clock) ==
    LET delegations == get_delegations(self, delegator)
        Other(delegation) == delegation.valid_until > clock
                             /\ delegation.delegatee # delegatee
    IN  SumOver(delegations, Other, Len(delegations))

\* C7: in every state, for every delegator, the fractions of the entries whose
\* valid_until is after the current time (or any later time) sum to at most 1;
\* a make_delegation that would take the sum over 1 is rejected and leaves the
\* delegator lists and the reverse index as they were.
C7_DelegationCap ==
    /\ \A delegator \in Delegators, clock \in LaterTimes :
         ActiveFraction(delegator, VoteDelegation, clock) <= DecimalOne
    /\ \A proofs \in DelegatorProofSets, delegator \in Delegators,
          delegatee \in Delegatees, fraction \in FractionInputs,
          valid_until \in ValidUntilInputs :
         LET r == make_delegation(VoteDelegation, proofs, delegator, delegatee, fraction,
                                  valid_until, now)
         IN  /\ ActiveFraction(delegator, r.self, now) <= DecimalOne
             /\ (fraction > 0 /\ valid_until > now
                 /\ CommittedElsewhere(delegator, delegatee, VoteDelegation, now) + fraction
                    > DecimalOne)
                => (r.err # Ok /\ r.self.delegators = delegators
                    /\ r.self.delegatees = delegatees)

\* a delegator has delegated all of its weight in two entries that are still
\* valid, and its call that would raise one of them to 100% is rejected
C7_Witness ==
    /\ last.op = "make_delegation"
    /\ Len(get_delegations(VoteDelegation, "a1")) = 2
    /\ ActiveFraction("a1", VoteDelegation, now) = DecimalOne
    /\ make_delegation(VoteDelegation, {"a1"}, "a1", "a2", DecimalOne, 2 * SecondsPerDay,
                       now).err = "Total delegation cannot exceed 100%"

\* the calls of make_delegation that pass its input checks
ValidDelegationInput(delegator, delegatee, fraction, valid_until) ==
    /\ fraction > 0
    /\ fraction <= DecimalOne
    /\ delegator # delegatee
    /\ valid_until > now

\* C8: a make_delegation with the proof of the delegator and inputs that pass
\* the input checks succeeds exactly when committed + fraction <= 1, committed
\* being the fractions of the delegator's entries that are valid at the current
\* time and are to another delegatee; otherwise it fails as cap exceeded.  After
\* 60% to one delegatee, 50% to a second fails, 40% to it succeeds with a total
\* of 100%, and 100% to the first succeeds.
C8_CapCheck ==
    /\ \A delegator \in Delegators, delegatee \in Delegatees, fraction \in FractionInputs,
          valid_until \in ValidUntilInputs :
         ValidDelegationInput(delegator, delegatee, fraction, valid_until) =>
             LET r == make_delegation(VoteDelegation, {delegator}, delegator, delegatee,
                                      fraction, valid_until, now)
                 committed == CommittedElsewhere(delegator, delegatee, VoteDelegation, now)
             IN  IF committed + fraction <= DecimalOne
                 THEN r.err = Ok
                 ELSE ErrorKind(r.err) = "CapExceeded"
    /\ \A valid_until \in ValidUntilInputs :
         (/\ valid_until > now
          /\ Len(get_delegations(VoteDelegation, "a1")) = 1
          /\ get_delegations(VoteDelegation, "a1")[1].delegatee = "a2"
          /\ get_delegations(VoteDelegation, "a1")[1].fraction = 60
          /\ get_delegations(VoteDelegation, "a1")[1].valid_until > now)
         => LET to(delegatee, fraction) ==
                    make_delegation(VoteDelegation, {"a1"}, "a1", delegatee, fraction,
                                    valid_until, now)
            IN  /\ ErrorKind(to("a3", 50).err) = "CapExceeded"
                /\ to("a3", 40).err = Ok
                /\ ActiveFraction("a1", to("a3", 40).self, now) = DecimalOne
                /\ to("a2", 100).err = Ok
                /\ ActiveFraction("a1", to("a2", 100).self, now) = DecimalOne

\* 60% went to one delegatee and then 40% to a second: both entries are valid
\* and the total is 100%
C8_Witness ==
    /\ last.op = "make_delegation"
    /\ last.args.fraction = 40
    /\ last.args.delegatee = "a3"
    /\ Len(get_delegations(VoteDelegation, "a1")) = 2
    /\ get_delegations(VoteDelegation, "a1")[1].delegatee = "a2"
    /\ get_delegations(VoteDelegation, "a1")[1].fraction = 60
    /\ get_delegations(VoteDelegation, "a1")[1].valid_until > now
    /\ ActiveFraction("a1", VoteDelegation, now) = DecimalOne

\* C9: in every state make_delegation fails, and changes neither the delegator
\* lists nor the reverse index, when delegator = delegatee, when fraction is 0
\* or less, when fraction is over 1, or when valid_until is not after the
\* current time.
C9_InvalidInputsRejected ==
    \A proofs \in DelegatorProofSets, delegator \in Delegators, delegatee \in Delegatees,
       fraction \in FractionInputs, valid_until \in ValidUntilInputs :
        (\/ delegator = delegatee
         \/ fraction <= 0
         \/ fraction > DecimalOne
         \/ valid_until <= now)
        => LET r == make_delegation(VoteDelegation, proofs, delegator, delegatee, fraction,
                                    valid_until, now)
           IN  /\ r.err # Ok
               /\ r.self.delegators = delegators
               /\ r.self.delegatees = delegatees

\* the clock is at the end of the first day, a delegator has an entry, and its
\* calls with valid_until = now, with itself as delegatee, with 0 and with more
\* than 1 fail
C9_Witness ==
    /\ now = SecondsPerDay
    /\ get_delegations(VoteDelegation, "a2") # <<>>
    /\ make_delegation(VoteDelegation, {"a2"}, "a2", "a3", 40, now, now).err =
           "Delegation must be valid for some time in the future"
    /\ make_delegation(VoteDelegation, {"a2"}, "a2", "a2", 40, 2 * now, now).err =
           "Cannot delegate to yourself"
    /\ make_delegation(VoteDelegation, {"a2"}, "a2", "a3", 0, 2 * now, now).err =
           "Fraction must be between 0 (exclusive) and 1 (inclusive)"
    /\ make_delegation(VoteDelegation, {"a2"}, "a2", "a3", 101, 2 * now, now).err =
           "Fraction must be between 0 (exclusive) and 1 (inclusive)"

\* C10: right after a make_delegation(d1, d2, f, t) that returned,
\* get_delegatee_delegators(d2, d1) is f, also when the call replaced an entry
\* with another fraction; right after a remove_delegation(d1, d2) that
\* returned, the lookup is absent.
C10_ReverseIndexRoundTrip ==
    /\ last.op = "make_delegation" =>
           get_delegatee_delegators(VoteDelegation, last.args.delegatee,
                                    last.args.delegator) = Some(last.args.fraction)
    /\ last.op = "remove_delegation" =>
           get_delegatee_delegators(VoteDelegation, last.args.delegatee,
                                    last.args.delegator) = None
    /\ \A proofs \in DelegatorProofSets, delegator \in Delegators,
          delegatee \in Delegatees :
         /\ \A fraction \in FractionInputs, valid_until \in ValidUntilInputs :
              LET r == make_delegation(VoteDelegation, proofs, delegator, delegatee,
                                       fraction, valid_until, now)
              IN  r.err = Ok =>
                      get_delegatee_delegators(r.self, delegatee, delegator)
                          = Some(fraction)
         /\ LET r == remove_delegation(VoteDelegation, proofs, delegator, delegatee)
            IN  r.err = Ok =>
                    get_delegatee_delegators(r.self, delegatee, delegator) = None

\* a make_delegation replaced an entry that had another fraction, and the
\* remove_delegation of the pair would return
C10_Witness ==
    /\ last.op = "make_delegation"
    /\ last.args.before # None
    /\ last.args.before # Some(last.args.fraction)
    /\ get_delegatee_delegators(VoteDelegation, last.args.delegatee, last.args.delegator)
           = Some(last.args.fraction)
    /\ remove_delegation(VoteDelegation, {last.args.delegator}, last.args.delegator,
                         last.args.delegatee).err = Ok

\* the positions of the entries of a delegator's list that are to a delegatee
EntriesTo(self, delegator, delegatee) ==
    {i \in 1..Len(get_delegations(self, delegator)) :
        get_delegations(self, delegator)[i].delegatee = delegatee}

\* C11: in every state, for all accounts d and e, the delegatee index holds an
\* entry for d under e exactly when the list of d has an entry to e, and the
\* fraction the index holds is the fraction of that entry.
C11_ReverseIndexMatchesList ==
    \A d \in Accounts, e \in Accounts :
        LET indexed == e \in DOMAIN delegatees /\ d \in DOMAIN delegatees[e]
        IN  /\ indexed <=> EntriesTo(VoteDelegation, d, e) # {}
            /\ indexed =>
                   \A i \in EntriesTo(VoteDelegation, d, e) :
                       delegatees[e][d] = get_delegations(VoteDelegation, d)[i].fraction

\* a delegator delegated to two delegatees and removed the first entry: the
\* index holds the second alone
C11_Witness ==
    /\ last.op = "remove_delegation"
    /\ last.args.delegator = "a1"
    /\ last.args.delegatee = "a2"
    /\ Len(get_delegations(VoteDelegation, "a1")) = 1
    /\ get_delegatee_delegators(VoteDelegation, "a3", "a1") # None
    /\ get_delegatee_delegators(VoteDelegation, "a2", "a1") = None

\* C12: in every state the list of a delegator has at most one entry for a
\* delegatee; a make_delegation to a delegatee that has an entry, expired or
\* not, leaves the length of the list as it was and the one entry to the
\* delegatee carries the fraction and valid_until of the call; a
\* make_delegation to a delegatee without an entry adds one entry.
C12_OneEntryPerDelegatee ==
    /\ \A d \in Delegators, e \in Accounts :
         Cardinality(EntriesTo(VoteDelegation, d, e)) <= 1
    /\ \A d \in Delegators, e \in Delegatees, fraction \in FractionInputs,
          valid_until \in ValidUntilInputs :
         LET r == make_delegation(VoteDelegation, {d}, d, e, fraction, valid_until, now)
             before == get_delegations(VoteDelegation, d)
             after == get_delegations(r.self, d)
         IN  r.err = Ok =>
                 /\ Len(after) = IF EntriesTo(VoteDelegation, d, e) # {}
                                 THEN Len(before) ELSE Len(before) + 1
                 /\ Cardinality(EntriesTo(r.self, d, e)) = 1
                 /\ \A i \in EntriesTo(r.self, d, e) :
                        /\ after[i].fraction = fraction
                        /\ after[i].valid_until = valid_until

\* an entry that had expired was replaced by a call with another fraction and
\* a later valid_until: the list still has one entry
C12_Witness ==
    /\ last.op = "make_delegation"
    /\ last.args.before = Some(60)
    /\ last.args.fraction = 40
    /\ now >= SecondsPerDay
    /\ last.args.valid_until > now
    /\ get_delegations(VoteDelegation, last.args.delegator) =
           <<[delegatee |-> last.args.delegatee, fraction |-> 40,
              valid_until |-> last.args.valid_until]>>

\* the k-th of the accounts a delegator without entries delegates to
Fresh(k) == "e" \o ToString(k)

\* the entry of a delegator's k-th delegation, of 1% to the k-th fresh account,
\* valid past the last day
FreshEntry(k) == [delegatee |-> Fresh(k), fraction |-> 1,
                  valid_until |-> (MaxDay + 1) * SecondsPerDay]

\* the component when a delegator that had no entry holds the first n of them
Filled(self, delegator, n) ==
    IF n = 0 THEN self
    ELSE [delegators |-> Insert(self.delegators, delegator, [k \in 1..n |-> FreshEntry(k)]),
          delegatees |->
              [e \in DOMAIN self.delegatees \cup {Fresh(k) : k \in 1..n} |->
                  IF e \in DOMAIN self.delegatees THEN self.delegatees[e]
                  ELSE Insert(EmptyKvs, delegator, 1)]]

\* the next make_delegation of the delegator, with its proof
Fill(self, delegator, n) ==
    make_delegation(Filled(self, delegator, n), {delegator}, delegator,
                    FreshEntry(n + 1).delegatee, FreshEntry(n + 1).fraction,
                    FreshEntry(n + 1).valid_until, now)

\* C13: the list of a delegator never has more than MAX_DELEGATIONS entries,
\* expired or not: when call after call has taken a delegator without entries
\* to MAX_DELEGATIONS of them, its make_delegation to one more delegatee is
\* rejected and adds nothing.
C13_CountCap ==
    /\ \A d \in Accounts : Len(get_delegations(VoteDelegation, d)) <= MAX_DELEGATIONS
    /\ \A d \in Accounts \ Delegators :
         (\A n \in 0..(MAX_DELEGATIONS - 1) :
              /\ Fill(VoteDelegation, d, n).err = Ok
              /\ Fill(VoteDelegation, d, n).self = Filled(VoteDelegation, d, n + 1))
         => LET r == Fill(VoteDelegation, d, MAX_DELEGATIONS)
            IN  /\ r.err # Ok
                /\ Len(get_delegations(r.self, d)) <= MAX_DELEGATIONS

\* the entries of a list that are not to a delegatee, in the order of the list
OtherEntries(delegations, delegatee) ==
    SelectSeq(delegations, LAMBDA delegation : delegation.delegatee # delegatee)

\* the entries of a list that have expired at a clock reading
ExpiredEntries(delegations, clock) ==
    {i \in 1..Len(delegations) : delegations[i].valid_until <= clock}

\* an entry that has expired does not count: the calls that pass the input
\* checks return whenever the entries to the other delegatees have all expired,
\* up to 100%; and a call that returns leaves the entries to the other
\* delegatees, expired ones included, and the lists of the other delegators as
\* they were; get_delegations returns the whole list
C14_ExpiredNotCounted ==
    \A d \in Delegators :
        LET before == get_delegations(VoteDelegation, d)
        IN  /\ d \in DOMAIN delegators => before = delegators[d]
            /\ \A e \in Delegatees :
                 /\ \A fraction \in FractionInputs, valid_until \in ValidUntilInputs :
                      LET r == make_delegation(VoteDelegation, {d}, d, e, fraction,
                                               valid_until, now)
                      IN  /\ (/\ ValidDelegationInput(d, e, fraction, valid_until)
                              /\ \A i \in 1..Len(before) :
                                   before[i].delegatee = e \/ i \in ExpiredEntries(before, now))
                             => r.err = Ok
                          /\ r.err = Ok =>
                                 /\ OtherEntries(get_delegations(r.self, d), e)
                                        = OtherEntries(before, e)
                                 /\ \A other \in Delegators \ {d} :
                                        get_delegations(r.self, other)
                                            = get_delegations(VoteDelegation, other)
                 /\ LET r == remove_delegation(VoteDelegation, {d}, d, e)
                    IN  r.err = Ok =>
                            /\ get_delegations(r.self, d) = OtherEntries(before, e)
                            /\ \A other \in Delegators \ {d} :
                                   get_delegations(r.self, other)
                                       = get_delegations(VoteDelegation, other)

\* an entry leaves the list of a delegator only in the step of a
\* remove_delegation or a make_delegation of that delegator to the delegatee of
\* the entry; the step of the clock changes neither store
C14_EntriesStay ==
    /\ now' # now => (delegators' = delegators /\ delegatees' = delegatees)
    /\ \A d \in DOMAIN delegators : \A i \in 1..Len(delegators[d]) :
         (~ \E j \in 1..Len(delegators'[d]) : delegators'[d][j] = delegators[d][i])
         => /\ last'.op \in {"make_delegation", "remove_delegation"}
            /\ last'.args.delegator = d
            /\ last'.args.delegatee = delegators[d][i].delegatee

\* C14: expiry is passive.  Once the clock has reached the valid_until of an
\* entry the entry no longer counts toward the cap of the delegator (with one
\* expired entry of 100% the delegator can delegate 100% to another
\* delegatee); and no step removes an entry as the clock advances or as
\* another delegatee is written: the entry stays in the list, and
\* get_delegations returns it, until a remove_delegation or a make_delegation
\* to its delegatee.
C14_PassiveExpiry == [](C14_ExpiredNotCounted) /\ [][C14_EntriesStay]_vars

\* 100% to one delegatee expired, and 100% went to a second one: the list
\* holds both entries
C14_Witness ==
    /\ last.op = "make_delegation"
    /\ last.args.fraction = DecimalOne
    /\ Len(get_delegations(VoteDelegation, last.args.delegator)) = 2
    /\ get_delegations(VoteDelegation, last.args.delegator)[1].fraction = DecimalOne
    /\ get_delegations(VoteDelegation, last.args.delegator)[1].valid_until <= now
    /\ get_delegations(VoteDelegation, last.args.delegator)[2].delegatee
           = last.args.delegatee
    /\ get_delegations(VoteDelegation, last.args.delegator)[2].valid_until > now

\* C15 as stated: get_delegatee_delegators(delegatee, delegator) returns a
\* fraction only if the delegator has an entry to the delegatee whose
\* valid_until is after the current time, the fraction of that entry; for a
\* pair without an entry, or with an entry that has expired, it returns absent.
C15_AbsentWhenExpired ==
    \A d \in Accounts, e \in Accounts :
        LET found == get_delegatee_delegators(VoteDelegation, e, d)
            delegations == get_delegations(VoteDelegation, d)
        IN  found # None =>
                \E i \in EntriesTo(VoteDelegation, d, e) :
                    /\ delegations[i].valid_until > now
                    /\ found = Some(delegations[i].fraction)

\* C15, amended: get_delegatee_delegators(delegatee, delegator) returns absent
\* exactly when the list of the delegator has no entry to the delegatee, never
\* made or removed; while the list has one it returns the fraction of that
\* entry, at the current time and at every later one, the entry expired or not.
C15_AbsentWhenNoEntry ==
    \A d \in Accounts, e \in Accounts :
        LET found == get_delegatee_delegators(VoteDelegation, e, d)
            delegations == get_delegations(VoteDelegation, d)
        IN  IF EntriesTo(VoteDelegation, d, e) = {}
            THEN found = None
            ELSE \A i \in EntriesTo(VoteDelegation, d, e) :
                     found = Some(delegations[i].fraction)

\* an entry has expired and the lookup of its pair returns its fraction, while
\* the lookup of the pair the other way round is absent
C15_Witness ==
    \E d \in Delegators, e \in Delegatees :
        /\ EntriesTo(VoteDelegation, d, e) # {}
        /\ \A i \in EntriesTo(VoteDelegation, d, e) :
             /\ i \in ExpiredEntries(get_delegations(VoteDelegation, d), now)
             /\ get_delegatee_delegators(VoteDelegation, e, d)
                    = Some(get_delegations(VoteDelegation, d)[i].fraction)
        /\ get_delegatee_delegators(VoteDelegation, d, e) = None

\* C16: remove_delegation(delegator, delegatee) with the proof of the
\* delegator fails as not found and changes nothing when the delegator has no
\* record or no entry to the delegatee (a delegator whose entries were all
\* removed included); otherwise it returns, and removes the entry to the
\* delegatee from the list of the delegator and the entry of the pair from the
\* reverse index and nothing else, whether the entry has expired or not.
C16_RemoveDelegation ==
    \A d \in Delegators, e \in Delegatees :
        LET r == remove_delegation(VoteDelegation, {d}, d, e)
            before == get_delegations(VoteDelegation, d)
        IN  IF EntriesTo(VoteDelegation, d, e) = {}
            THEN /\ ErrorKind(r.err) = "NotFound"
                 /\ r.self = VoteDelegation
            ELSE /\ r.err = Ok
                 /\ get_delegations(r.self, d) = OtherEntries(before, e)
                 /\ Len(get_delegations(r.self, d)) = Len(before) - 1
                 /\ get_delegatee_delegators(r.self, e, d) = None
                 /\ \A d2 \in Accounts, e2 \in Accounts :
                      <<d2, e2>> # <<d, e>> =>
                          get_delegatee_delegators(r.self, e2, d2)
                              = get_delegatee_delegators(VoteDelegation, e2, d2)
                 /\ \A d2 \in Accounts \ {d} :
                      get_delegations(r.self, d2) = get_delegations(VoteDelegation, d2)

\* one delegator removed its only entry, and its next removal fails; another
\* has an entry that has expired, and its removal would return; an account
\* that never delegated has no record
C16_Witness ==
    /\ "a2" \in DOMAIN delegators
    /\ get_delegations(VoteDelegation, "a2") = <<>>
    /\ remove_delegation(VoteDelegation, {"a2"}, "a2", "a3").err =
           "No delegation found to the specified delegatee"
    /\ Len(get_delegations(VoteDelegation, "a1")) = 1
    /\ ExpiredEntries(get_delegations(VoteDelegation, "a1"), now) = {1}
    /\ remove_delegation(VoteDelegation, {"a1"}, "a1",
                         get_delegations(VoteDelegation, "a1")[1].delegatee).err = Ok
    /\ remove_delegation(VoteDelegation, {"a3"}, "a3", "a2").err =
           "No delegations found for this account"

----------------------------------------------------------------------------
(* Properties of both components *)

\* the calls of the methods that name an account, without the proof of that
\* account, and of the methods of the owner, without the badge of the owner:
\* each fails as not authorized and leaves the component as it was
UnprovenCallsFail ==
    /\ \A proofs \in ProofSets, account \in Voters :
         account \notin proofs =>
             /\ \A id \in IdInputs(temperature_check_count), vote \in TemperatureCheckVote :
                  LET r == vote_on_temperature_check(Governance, proofs, account, id,
                                                     vote, now)
                  IN  ErrorKind(r.err) = "NotAuthorized" /\ r.self = Governance
             /\ \A id \in IdInputs(proposal_count), selection \in OneOptionInputs :
                  LET r == vote_on_proposal(Governance, proofs, account, id, selection, now)
                  IN  ErrorKind(r.err) = "NotAuthorized" /\ r.self = Governance
    /\ \A id \in IdInputs(temperature_check_count) :
         LET r == make_proposal(Governance, FALSE, id, now)
         IN  ErrorKind(r.err) = "NotAuthorized" /\ r.self = Governance
    /\ \A new_params \in ParameterSets :
         LET r == update_governance_parameters(Governance, FALSE, new_params)
         IN  ErrorKind(r.err) = "NotAuthorized" /\ r.self = Governance
    /\ \A proofs \in DelegatorProofSets, delegator \in Delegators, delegatee \in Delegatees :
         delegator \notin proofs =>
             /\ \A fraction \in FractionInputs, valid_until \in ValidUntilInputs :
                  LET r == make_delegation(VoteDelegation, proofs, delegator, delegatee,
                                           fraction, valid_until, now)
                  IN  ErrorKind(r.err) = "NotAuthorized" /\ r.self = VoteDelegation
             /\ LET r == remove_delegation(VoteDelegation, proofs, delegator, delegatee)
                IN  ErrorKind(r.err) = "NotAuthorized" /\ r.self = VoteDelegation

\* C17 as stated: every mutating operation of both components, called without
\* a valid proof, fails as not authorized and changes no store and no counter:
\* make_temperature_check, make_proposal, vote_on_temperature_check,
\* vote_on_proposal, update_governance_parameters, make_delegation and
\* remove_delegation.
C17_EveryMutatingOperation ==
    /\ UnprovenCallsFail
    /\ \A draft \in Drafts :
         LET r == make_temperature_check(Governance, draft, now)
         IN  ErrorKind(r.err) = "NotAuthorized" /\ r.self = Governance

\* C17, amended: the mutating operations that act for an account
\* (vote_on_temperature_check, vote_on_proposal, make_delegation,
\* remove_delegation) check the proof of that account, and make_proposal and
\* update_governance_parameters the badge of the owner, before anything else:
\* called without it they fail as not authorized, whatever the other inputs,
\* and change no store and no counter.  make_temperature_check names no
\* account and checks no proof: a call with a valid draft returns and stores
\* the temperature check.
C17_ProofBeforeState ==
    /\ UnprovenCallsFail
    /\ \A draft \in ValidDrafts :
         LET r == make_temperature_check(Governance, draft, now)
         IN  /\ r.err = Ok
             /\ r.ret[1] \in DOMAIN r.self.temperature_checks
             /\ r.ret[1] \notin DOMAIN temperature_checks

\* a proposal is open and a delegation is stored: the vote on the proposal and
\* the removal of the delegation that would return with the proof of the
\* account fail without it
C17_Witness ==
    \E p \in DOMAIN proposals, d \in DOMAIN delegators :
        /\ vote_on_proposal(Governance, {"a1"}, "a1", p, <<0>>, now).err = Ok
        /\ vote_on_proposal(Governance, {"a2"}, "a1", p, <<0>>, now).err = "Unauthorized"
        /\ get_delegations(VoteDelegation, d) # <<>>
        /\ remove_delegation(VoteDelegation, {d}, d,
                             get_delegations(VoteDelegation, d)[1].delegatee).err = Ok
        /\ remove_delegation(VoteDelegation, {}, d,
                             get_delegations(VoteDelegation, d)[1].delegatee).err
               = "Unauthorized"

\* C18: make_proposal and update_governance_parameters take effect only with
\* the badge of the owner: without it they fail as not authorized and leave
\* the parameters, both ballot stores and both counters as they were, and with
\* it they return; every other operation returns without the badge: the
\* creation of a temperature check, the votes of an account that carries its
\* own proof, the reads.
C18_OwnerOnly ==
    /\ \A id \in IdInputs(temperature_check_count), clock \in LaterTimes :
         LET denied == make_proposal(Governance, FALSE, id, clock)
             owner == make_proposal(Governance, TRUE, id, clock)
         IN  /\ ErrorKind(denied.err) = "NotAuthorized"
             /\ denied.ret = None
             /\ denied.self = Governance
             /\ (id \in DOMAIN temperature_checks
                 /\ temperature_checks[id].elevated_proposal_id = None)
                => (owner.err = Ok /\ get_proposal_count(owner.self) = proposal_count + 1)
    /\ \A new_params \in ParameterSets :
         LET denied == update_governance_parameters(Governance, FALSE, new_params)
             owner == update_governance_parameters(Governance, TRUE, new_params)
         IN  /\ ErrorKind(denied.err) = "NotAuthorized"
             /\ denied.self = Governance
             /\ owner.err = Ok
             /\ get_governance_parameters(owner.self) = new_params
    /\ \A draft \in ValidDrafts : make_temperature_check(Governance, draft, now).err = Ok
    /\ \A t \in DOMAIN temperature_checks, vote \in TemperatureCheckVote :
         \A a \in Voters \ DOMAIN temperature_checks[t].votes :
             WindowOpen(temperature_checks[t], now) =>
                 vote_on_temperature_check(Governance, {a}, a, t, vote, now).err = Ok
    /\ \A p \in DOMAIN proposals :
         \A a \in Voters \ DOMAIN proposals[p].votes :
             WindowOpen(proposals[p], now) =>
                 vote_on_proposal(Governance, {a}, a, p, <<0>>, now).err = Ok

\* the owner elevated one temperature check; for another one the call without
\* the badge fails where the call of the owner would return
C18_Witness ==
    \E t \in DOMAIN temperature_checks :
        /\ last.op = "make_proposal"
        /\ last.args.badge
        /\ last.args.id # t
        /\ make_proposal(Governance, FALSE, t, now).err = "Unauthorized"
        /\ make_proposal(Governance, TRUE, t, now).err = Ok
        /\ \E new_params \in ParameterSets :
             /\ new_params # governance_parameters
             /\ update_governance_parameters(Governance, FALSE, new_params).err
                    = "Unauthorized"

\* what a ballot keeps of the parameters it was created under
Snapshot(ballot) == [quorum |-> ballot.quorum,
                     approval_threshold |-> ballot.approval_threshold,
                     start |-> ballot.start, deadline |-> ballot.deadline]

\* the update of the owner replaces the parameter set and nothing else, and
\* the ballots created after it carry the new values
C19_UpdateReplacesParameters ==
    /\ last.op = "update_governance_parameters" =>
           get_governance_parameters(Governance) = last.args.new_params
    /\ \A new_params \in ParameterSets :
         LET r == update_governance_parameters(Governance, TRUE, new_params)
         IN  /\ r.err = Ok
             /\ get_governance_parameters(r.self) = new_params
             /\ r.self.temperature_checks = temperature_checks
             /\ r.self.proposals = proposals
             /\ get_temperature_check_count(r.self) = temperature_check_count
             /\ get_proposal_count(r.self) = proposal_count
             /\ \A draft \in ValidDrafts :
                  LET created == make_temperature_check(r.self, draft, now)
                  IN  Snapshot(created.self.temperature_checks[created.ret[1]]) =
                          [quorum |-> new_params.temperature_check_quorum,
                           approval_threshold |->
                               new_params.temperature_check_approval_threshold,
                           start |-> now,
                           deadline |-> now + new_params.temperature_check_days
                                                  * SecondsPerDay]
             /\ \A t \in DOMAIN temperature_checks :
                  temperature_checks[t].elevated_proposal_id = None =>
                      LET elevated == make_proposal(r.self, TRUE, t, now)
                      IN  Snapshot(elevated.self.proposals[elevated.ret[1]]) =
                              [quorum |-> new_params.proposal_quorum,
                               approval_threshold |->
                                   new_params.proposal_approval_threshold,
                               start |-> now,
                               deadline |-> now + new_params.proposal_length_days
                                                      * SecondsPerDay]

\* no step changes the quorum, approval_threshold, start or deadline of a
\* stored ballot
C19_SnapshotsStand ==
    /\ \A t \in DOMAIN temperature_checks :
         /\ t \in DOMAIN temperature_checks'
         /\ Snapshot(temperature_checks'[t]) = Snapshot(temperature_checks[t])
    /\ \A p \in DOMAIN proposals :
         /\ p \in DOMAIN proposals'
         /\ Snapshot(proposals'[p]) = Snapshot(proposals[p])

\* C19: update_governance_parameters changes only the live parameter set: the
\* quorum, approval_threshold, start and deadline of every temperature check
\* and proposal that is stored are the same before and after the call, a
\* ballot created after the call carries the new values, and
\* get_governance_parameters returns the last value set.
C19_UpdateFrame == [](C19_UpdateReplacesParameters) /\ [][C19_SnapshotsStand]_vars

\* a temperature check was created, the owner set other parameters, and the
\* temperature check created after that carries the new values where the first
\* keeps the old ones
C19_Witness ==
    /\ last.op = "make_temperature_check"
    /\ temperature_check_count = 2
    /\ temperature_checks[1].quorum = governance_parameters.temperature_check_quorum
    /\ temperature_checks[0].quorum # governance_parameters.temperature_check_quorum
    /\ temperature_checks[0].approval_threshold
           # governance_parameters.temperature_check_approval_threshold

\* the cross-references of a Governance component: every temperature check
\* that names a proposal names a stored one that names it back, and every
\* stored proposal names a stored temperature check that names it
CrossReferenced(self) ==
    /\ \A t \in DOMAIN self.temperature_checks :
         LET elevated == self.temperature_checks[t].elevated_proposal_id
         IN  elevated # None =>
                 /\ elevated[1] \in DOMAIN self.proposals
                 /\ self.proposals[elevated[1]].temperature_check_id = t
    /\ \A p \in DOMAIN self.proposals :
         LET t == self.proposals[p].temperature_check_id
         IN  /\ t \in DOMAIN self.temperature_checks
             /\ self.temperature_checks[t].elevated_proposal_id = Some(p)

\* C20: in every state, temperature check t has elevated_proposal_id = p
\* exactly when proposal p is stored and its temperature_check_id is t; this
\* also holds of what every make_proposal commits, returned or failed: the
\* mark and the proposal are written together or not at all.
C20_CrossReferences ==
    /\ CrossReferenced(Governance)
    /\ \A t \in DOMAIN temperature_checks, p \in IdInputs(proposal_count) :
         (temperature_checks[t].elevated_proposal_id = Some(p))
         <=> (p \in DOMAIN proposals /\ proposals[p].temperature_check_id = t)
    /\ \A badge \in BOOLEAN, id \in IdInputs(temperature_check_count) :
         LET r == make_proposal(Governance, badge, id, now)
         IN  /\ CrossReferenced(r.self)
             /\ r.err = Ok =>
                    /\ r.self.temperature_checks[id].elevated_proposal_id = r.ret
                    /\ r.self.proposals[r.ret[1]].temperature_check_id = id
             /\ r.err # Ok => r.self = Governance

\* two temperature checks were elevated, the second one first: each names the
\* proposal that names it
C20_Witness ==
    /\ last.op = "make_proposal"
    /\ proposal_count = 2
    /\ temperature_checks[1].elevated_proposal_id = Some(0)
    /\ temperature_checks[0].elevated_proposal_id = Some(1)
    /\ proposals[0].temperature_check_id = 1
    /\ proposals[1].temperature_check_id = 0

\* what make_proposal copies from the temperature check, max_selections aside
Copied(ballot) == [title |-> ballot.title, description |-> ballot.description,
                   vote_options |-> ballot.vote_options,
                   attachments |-> ballot.attachments, rfc_url |-> ballot.rfc_url]

\* the max_selections a stored ballot carries, when it carries one
Carries(ballot, max_selections) ==
    /\ "max_selections" \in DOMAIN ballot
    /\ ballot.max_selections = max_selections

\* C21: a make_proposal of the owner on temperature check t that returns at
\* time now creates a proposal with the title, description, options,
\* attachments, URL and max_selections of t, the proposal quorum and approval
\* threshold of the parameters live at that time, start = now, deadline = now
\* + proposal_length_days, temperature_check_id = t and no vote.
C21_ElevationCopies ==
    \A t \in DOMAIN temperature_checks :
        temperature_checks[t].elevated_proposal_id = None =>
            LET r == make_proposal(Governance, TRUE, t, now)
                proposal == r.self.proposals[r.ret[1]]
            IN  /\ r.err = Ok
                /\ Copied(proposal) = Copied(temperature_checks[t])
                /\ Snapshot(proposal) =
                       [quorum |-> governance_parameters.proposal_quorum,
                        approval_threshold |->
                            governance_parameters.proposal_approval_threshold,
                        start |-> now,
                        deadline |-> now + governance_parameters.proposal_length_days
                                               * SecondsPerDay]
                /\ proposal.temperature_check_id = t
                /\ proposal.votes = EmptyKvs
                /\ Carries(temperature_checks[t], history.max_selections[t + 1])
                /\ Carries(proposal, history.max_selections[t + 1])

\* a call and the body of its method agree on the outcome; a body that stops
\* with an error has written nothing (its state is the state before the
\* call), the call returns no value and the component is as it was; a body
\* that returns has written what the call commits
Unwritten(before, r, body) ==
    /\ body.err = r.err
    /\ r.err = Ok => body.self = r.self
    /\ r.err # Ok => (body.self = before /\ r.self = before /\ r.ret = None)

\* C22: every operation of both components that ends in an error leaves the
\* whole state exactly as it was before the call: no counter is advanced, no
\* ballot or vote is stored, no elevated_proposal_id is set, and neither the
\* delegator list nor the reverse index is modified.  Stated of what the body
\* of each method has written when it stops, and of what the call commits.
C22_ErrorsChangeNothing ==
    /\ \A draft \in Drafts :
         Unwritten(Governance, make_temperature_check(Governance, draft, now),
                   make_temperature_check_body(Governance, draft, now))
    /\ \A badge \in BOOLEAN, id \in IdInputs(temperature_check_count) :
         Unwritten(Governance, make_proposal(Governance, badge, id, now),
                   make_proposal_body(Governance, badge, id, now))
    /\ \A proofs \in ProofSets, account \in Voters :
         /\ \A id \in IdInputs(temperature_check_count), vote \in TemperatureCheckVote :
              Unwritten(Governance,
                        vote_on_temperature_check(Governance, proofs, account, id, vote,
                                                  now),
                        vote_on_temperature_check_body(Governance, proofs, account, id,
                                                       vote, now))
         /\ \A id \in IdInputs(proposal_count), selection \in SelectionInputs :
              Unwritten(Governance,
                        vote_on_proposal(Governance, proofs, account, id, selection, now),
                        vote_on_proposal_body(Governance, proofs, account, id, selection,
                                              now))
    /\ \A badge \in BOOLEAN, new_params \in ParameterSets :
         Unwritten(Governance, update_governance_parameters(Governance, badge, new_params),
                   update_governance_parameters_body(Governance, badge, new_params))
    /\ \A proofs \in DelegatorProofSets, delegator \in Delegators, delegatee \in Delegatees :
         /\ \A fraction \in FractionInputs, valid_until \in ValidUntilInputs :
              Unwritten(VoteDelegation,
                        make_delegation(VoteDelegation, proofs, delegator, delegatee,
                                        fraction, valid_until, now),
                        make_delegation_body(VoteDelegation, proofs, delegator, delegatee,
                                             fraction, valid_until, now))
         /\ Unwritten(VoteDelegation,
                      remove_delegation(VoteDelegation, proofs, delegator, delegatee),
                      remove_delegation_body(VoteDelegation, proofs, delegator, delegatee))

\* a temperature check is elevated and holds a vote, a delegation of 60% is
\* stored: the second elevation, the second vote, a delegation over the cap
\* and the removal of an entry that is not there (stopped after the retain)
\* all fail
C22_Witness ==
    \E t \in DOMAIN temperature_checks, d \in Delegators :
        /\ make_proposal(Governance, TRUE, t, now).err
               = "Temperature check has already been elevated to a proposal"
        /\ vote_on_temperature_check(Governance, {"a1"}, "a1", t, "For", now).err
               = "Account has already voted on this temperature check"
        /\ make_delegation(VoteDelegation, {d}, d, "a3", 50, 2 * SecondsPerDay, now).err
               = "Total delegation cannot exceed 100%"
        /\ remove_delegation_body(VoteDelegation, {d}, d, "a3").err
               = "No delegation found to the specified delegatee"

\* the methods that change the state of a component
MutatingOperations ==
    {"make_temperature_check", "make_proposal", "vote_on_temperature_check",
     "vote_on_proposal", "update_governance_parameters", "make_delegation",
     "remove_delegation"}

\* C23: a call of a mutating operation that returns emits exactly one event
\* (a call that fails emits none, with everything else it did).
C23_OneEventPerOperation ==
    last.op \in MutatingOperations => Len(last.events) = 1

\* drafts at and around the limits: the title and the description empty or
\* not, no option, one, the most, one too many, and the same for attachments
BoundaryDrafts ==
    {TemperatureCheckDraft(title, description, nOptions, nAttachments, max_selections) :
        title \in {"", "Test Proposal"},
        description \in {"", "A test proposal description"},
        nOptions \in {0, 1, MAX_VOTE_OPTIONS, MAX_VOTE_OPTIONS + 1},
        nAttachments \in {0, MAX_ATTACHMENTS, MAX_ATTACHMENTS + 1},
        max_selections \in {None, Some(2)}}

\* C24: make_temperature_check fails as a validation error, stores nothing
\* and leaves temperature_check_count as it was, when the title is empty, the
\* description is empty, there is no option or more than 10, or there are more
\* than 10 attachments; with 1 to 10 options, 0 to 10 attachments and a title
\* and a description that are not empty it returns and stores a temperature
\* check with no vote and no elevated_proposal_id.
C24_DraftValidation ==
    \A draft \in Drafts \cup BoundaryDrafts :
        LET r == make_temperature_check(Governance, draft, now)
            invalid == \/ draft.title = ""
                       \/ draft.description = ""
                       \/ Len(draft.vote_options) < 1
                       \/ Len(draft.vote_options) > 10
                       \/ Len(draft.attachments) > 10
        IN  IF invalid
            THEN /\ ErrorKind(r.err) = "ValidationError"
                 /\ r.self.temperature_checks = temperature_checks
                 /\ get_temperature_check_count(r.self) = temperature_check_count
            ELSE /\ r.err = Ok
                 /\ DOMAIN r.self.temperature_checks
                        = DOMAIN temperature_checks \cup {r.ret[1]}
                 /\ r.ret[1] \notin DOMAIN temperature_checks
                 /\ r.self.temperature_checks[r.ret[1]].votes = EmptyKvs
                 /\ r.self.temperature_checks[r.ret[1]].elevated_proposal_id = None
                 /\ r.self.temperature_checks[r.ret[1]].title = draft.title
                 /\ r.self.temperature_checks[r.ret[1]].vote_options = draft.vote_options
                 /\ r.self.temperature_checks[r.ret[1]].attachments = draft.attachments

\* a temperature check with 10 options and 10 attachments is stored, and the
\* drafts with 11 attachments, with 11 options and with no title fail
C24_Witness ==
    /\ last.op = "make_temperature_check"
    /\ Len(temperature_checks[last.ret[1]].vote_options) = MAX_VOTE_OPTIONS
    /\ Len(temperature_checks[last.ret[1]].attachments) = MAX_ATTACHMENTS
    /\ temperature_check_count = 2
    /\ make_temperature_check(Governance,
           TemperatureCheckDraft("Test Proposal", "A test proposal description", 2,
                                 MAX_ATTACHMENTS + 1, None), now).err
           = "Too many attachments"
    /\ make_temperature_check(Governance,
           TemperatureCheckDraft("Test Proposal", "A test proposal description",
                                 MAX_VOTE_OPTIONS + 1, 0, None), now).err
           = "Too many vote options"
    /\ make_temperature_check(Governance,
           TemperatureCheckDraft("", "A test proposal description", 2, 0, None), now).err
           = "Temperature check title cannot be empty"

\* what a delegator has delegated, in entries that are valid after the clock,
\* to delegatees other than two given ones
CommittedToOthers(delegator, e1, e2, self, clock) ==
    LET delegations == get_delegations(self, delegator)
        Other(delegation) == delegation.valid_until > clock
                             /\ delegation.delegatee \notin {e1, e2}
    IN  SumOver(delegations, Other, Len(delegations))

\* the inputs of make_delegation that pass its input checks
ValidFractions == {fraction \in FractionInputs : 0 < fraction /\ fraction <= DecimalOne}
LaterValidUntil == {valid_until \in ValidUntilInputs : valid_until > now}

\* C25: each call being one atomic step, two calls submitted together run one
\* after the other, in either order.  Of two votes of an account that carries
\* its proof and has not voted, on the same open ballot, the first is recorded
\* and the second fails as already recorded: one record results.  Of two
\* make_delegation of a delegator to two different delegatees, each passing
\* the input checks, with fractions that together exceed what the delegator
\* has not committed to other delegatees, at most one returns: when the first returns the second fails on
\* the cap and changes nothing.
C25_SerializedChecks ==
    /\ \A t \in DOMAIN temperature_checks, v1 \in TemperatureCheckVote,
          v2 \in TemperatureCheckVote :
         \A a \in Voters \ DOMAIN temperature_checks[t].votes :
             WindowOpen(temperature_checks[t], now) =>
                 LET first == vote_on_temperature_check(Governance, {a}, a, t, v1, now)
                     second == vote_on_temperature_check(first.self, {a}, a, t, v2, now)
                 IN  /\ first.err = Ok
                     /\ ErrorKind(second.err) = "AlreadyRecorded"
                     /\ second.self.temperature_checks[t].votes
                            = Insert(temperature_checks[t].votes, a, v1)
    /\ \A p \in DOMAIN proposals, s1 \in {<<0>>, <<1>>}, s2 \in {<<0>>, <<1>>} :
         \A a \in Voters \ DOMAIN proposals[p].votes :
             WindowOpen(proposals[p], now) =>
                 LET first == vote_on_proposal(Governance, {a}, a, p, s1, now)
                     second == vote_on_proposal(first.self, {a}, a, p, s2, now)
                 IN  /\ first.err = Ok
                     /\ ErrorKind(second.err) = "AlreadyRecorded"
                     /\ second.self.proposals[p].votes = Insert(proposals[p].votes, a, s1)
    /\ \A d \in Delegators :
       \A e1 \in Delegatees \ {d}, e2 \in Delegatees \ {d},
          f1 \in ValidFractions, f2 \in ValidFractions,
          u1 \in LaterValidUntil, u2 \in LaterValidUntil :
         e1 # e2 =>
             LET first == make_delegation(VoteDelegation, {d}, d, e1, f1, u1, now)
                 second == make_delegation(first.self, {d}, d, e2, f2, u2, now)
                 remaining == DecimalOne
                              - CommittedToOthers(d, e1, e2, VoteDelegation, now)
             IN  f1 + f2 > remaining =>
                     \/ first.err # Ok
                     \/ /\ ErrorKind(second.err) = "CapExceeded"
                        /\ second.self = first.self

\* an open temperature check on which an account has not voted, and a
\* delegator with a valid entry of 40%: of its calls for 60% to the other
\* delegatee and for 50% to the one it has, whichever runs first returns and
\* the other fails on the cap
C25_Witness ==
    \E t \in DOMAIN temperature_checks :
        /\ WindowOpen(temperature_checks[t], now)
        /\ "a1" \notin DOMAIN temperature_checks[t].votes
        /\ get_delegations(VoteDelegation, "a1") # <<>>
        /\ get_delegations(VoteDelegation, "a1")[1] =
               [delegatee |-> "a3", fraction |-> 40, valid_until |-> 2 * SecondsPerDay]
        /\ LET to(self, e, f) == make_delegation(self, {"a1"}, "a1", e, f,
                                                 2 * SecondsPerDay, now)
           IN  /\ to(VoteDelegation, "a2", 60).err = Ok
               /\ to(to(VoteDelegation, "a2", 60).self, "a3", 50).err
                      = "Total delegation cannot exceed 100%"
               /\ to(VoteDelegation, "a3", 50).err = Ok
               /\ to(to(VoteDelegation, "a3", 50).self, "a2", 60).err
                      = "Total delegation cannot exceed 100%"


\* the voting window a ballot created at clock for a number of days is to have
Window(clock, days) == [start |-> clock, deadline |-> clock + days * SecondsPerDay]
WindowOf(ballot) == [start |-> ballot.start, deadline |-> ballot.deadline]

\* every stored ballot starts no later than it ends; the ballot a call has just
\* created, and the ballot any call would create now, starts at the time of
\* the call and ends the live number of days later; a proposal starts when
\* its temperature check was elevated
C26_WindowsOfCreation ==
    /\ \A t \in DOMAIN temperature_checks :
         temperature_checks[t].start <= temperature_checks[t].deadline
    /\ \A p \in DOMAIN proposals : proposals[p].start <= proposals[p].deadline
    /\ last.op = "make_temperature_check" =>
           WindowOf(temperature_checks[last.ret[1]]) =
               Window(now, governance_parameters.temperature_check_days)
    /\ last.op = "make_proposal" =>
           WindowOf(proposals[last.ret[1]]) =
               Window(now, governance_parameters.proposal_length_days)
    /\ \A e \in history.elevated : proposals[e.ret].start = e.at
    /\ \A clock \in LaterTimes :
         /\ \A draft \in ValidDrafts :
              LET created == make_temperature_check(Governance, draft, clock)
              IN  /\ created.err = Ok
                  /\ WindowOf(created.self.temperature_checks[created.ret[1]]) =
                         Window(clock, governance_parameters.temperature_check_days)
         /\ \A t \in DOMAIN temperature_checks :
              temperature_checks[t].elevated_proposal_id = None =>
                  LET elevated == make_proposal(Governance, TRUE, t, clock)
                  IN  /\ elevated.err = Ok
                      /\ WindowOf(elevated.self.proposals[elevated.ret[1]]) =
                             Window(clock, governance_parameters.proposal_length_days)

\* no step changes the start or the deadline of a stored ballot
C26_WindowsStand ==
    /\ \A t \in DOMAIN temperature_checks :
         /\ t \in DOMAIN temperature_checks'
         /\ WindowOf(temperature_checks'[t]) = WindowOf(temperature_checks[t])
    /\ \A p \in DOMAIN proposals :
         /\ p \in DOMAIN proposals'
         /\ WindowOf(proposals'[p]) = WindowOf(proposals[p])

\* C26: every stored ballot satisfies start <= deadline: a temperature check
\* created at time now has start = now and deadline = now +
\* temperature_check_days of the parameters live at creation, a proposal has
\* start = elevation time and deadline = start + proposal_length_days, and
\* neither field changes after creation.
C26_VotingWindows == [](C26_WindowsOfCreation) /\ [][C26_WindowsStand]_vars

\* a temperature check created on one day under one day-count and elevated
\* later under another: the two windows differ, and both are still what they
\* were at creation
C26_Witness ==
    /\ last.op = "make_proposal"
    /\ now > 0
    /\ LET proposal == proposals[last.ret[1]]
           tc == temperature_checks[proposal.temperature_check_id]
       IN  /\ tc.start = 0
           /\ proposal.start = now
           /\ proposal.deadline > proposal.start
           /\ tc.deadline - tc.start # proposal.deadline - proposal.start

\* the ids a caller may name that no ballot of a store of count ballots has
UnknownIds(count) == {count, count + 1, count + 2}

\* C27: an operation that names a ballot id that was never created fails with
\* NotFound and changes nothing: vote_on_temperature_check and make_proposal
\* with id >= temperature_check_count, and vote_on_proposal with id >=
\* proposal_count; make_proposal on an unknown id does not advance
\* proposal_count.  At every clock reading such a call, made with the
\* authorization the method asks for, fails as not found; with or without the
\* authorization it fails, and the component is as it was.
C27_UnknownBallot ==
    \A clock \in LaterTimes :
      /\ \A id \in UnknownIds(get_temperature_check_count(Governance)) :
           /\ \A proofs \in ProofSets, account \in Voters, vote \in TemperatureCheckVote :
                LET r == vote_on_temperature_check(Governance, proofs, account, id, vote,
                                                   clock)
                IN  /\ r.err # Ok
                    /\ r.self = Governance
                    /\ account \in proofs => ErrorKind(r.err) = "NotFound"
           /\ \A badge \in BOOLEAN :
                LET r == make_proposal(Governance, badge, id, clock)
                IN  /\ r.err # Ok
                    /\ r.ret = None
                    /\ r.self = Governance
                    /\ get_proposal_count(r.self) = proposal_count
                    /\ badge => ErrorKind(r.err) = "NotFound"
      /\ \A id \in UnknownIds(get_proposal_count(Governance)) :
           \A proofs \in ProofSets, account \in Voters, selection \in SelectionInputs :
                LET r == vote_on_proposal(Governance, proofs, account, id, selection, clock)
                IN  /\ r.err # Ok
                    /\ r.self = Governance
                    /\ (account \in proofs /\ Len(selection) = 1) =>
                           ErrorKind(r.err) = "NotFound"

\* both stores hold a ballot that is open and takes the call, so that the same
\* call on the next id fails for the id alone
C27_Witness ==
    /\ temperature_check_count = 2
    /\ proposal_count = 1
    /\ temperature_checks[1].elevated_proposal_id = None
    /\ make_proposal(Governance, TRUE, 1, now).err = Ok
    /\ ErrorKind(make_proposal(Governance, TRUE, 2, now).err) = "NotFound"
    /\ vote_on_temperature_check(Governance, {"a1"}, "a1", 1, "For", now).err = Ok
    /\ ErrorKind(vote_on_temperature_check(Governance, {"a1"}, "a1", 2, "For", now).err)
           = "NotFound"
    /\ vote_on_proposal(Governance, {"a1"}, "a1", 0, <<0>>, now).err = Ok
    /\ ErrorKind(vote_on_proposal(Governance, {"a1"}, "a1", 1, <<0>>, now).err)
           = "NotFound"

\* the votes a proposal has recorded name options of the proposal, name none
\* twice, and name at least one and at most max_selections of them (one when
\* max_selections is absent)
RecordedWithin(proposal, max_selections) ==
    \A account \in DOMAIN proposal.votes :
        LET vote == proposal.votes[account]
        IN  /\ \A i \in 1..Len(vote) : vote[i] \in OptionIds(proposal)
            /\ \A i \in 1..Len(vote), j \in 1..Len(vote) : vote[i] = vote[j] => i = j
            /\ 1 <= Len(vote)
            /\ Len(vote) <= IF max_selections = None THEN 1 ELSE max_selections[1]

\* the max_selections a draft may carry: absent, and the smallest counts
MaxSelectionsInputs == {None, Some(0), Some(1), Some(2)}

\* C28: in every reachable state, every vote recorded in a proposal's vote
\* store names only option ids that exist in that proposal's option list,
\* contains no duplicate id, and has at least 1 and at most max_selections ids
\* (exactly 1 when max_selections is absent).  Stated of the stored proposals
\* and of the proposal that a temperature check made now, with any
\* max_selections, elevated and voted on, becomes.
C28_RecordedSelections ==
    /\ \A p \in DOMAIN proposals :
         RecordedWithin(proposals[p],
                        history.max_selections[proposals[p].temperature_check_id + 1])
    /\ \A max_selections \in MaxSelectionsInputs, account \in Voters :
         LET draft == TemperatureCheckDraft("Test Proposal", "A test proposal description",
                                            2, 0, max_selections)
             created == make_temperature_check(Governance, draft, now)
             elevated == make_proposal(created.self, TRUE, created.ret[1], now)
             voted == vote_on_proposal(elevated.self, {account}, account, elevated.ret[1],
                                       <<0>>, now)
         IN  (created.err = Ok /\ elevated.err = Ok /\ voted.err = Ok) =>
                 RecordedWithin(voted.self.proposals[elevated.ret[1]], max_selections)

\* what a call of delegator about delegatee leaves of a VoteDelegation
\* component: the list of every other delegator, the entries of the
\* delegator's list to other delegatees (fraction, valid_until and order), and
\* every entry of the reverse index but the one of the pair
Frame(before, after, delegator, delegatee) ==
    /\ \A other \in Accounts \ {delegator} :
         get_delegations(after, other) = get_delegations(before, other)
    /\ OtherEntries(get_delegations(after, delegator), delegatee) =
           OtherEntries(get_delegations(before, delegator), delegatee)
    /\ \A e \in Accounts, d \in Accounts :
         <<e, d>> # <<delegatee, delegator>> =>
             get_delegatee_delegators(after, e, d) =
                 get_delegatee_delegators(before, e, d)

\* every call of make_delegation and remove_delegation that can be made in the
\* state, with the proof of the delegator or without: one that returns keeps
\* the frame, one that fails keeps the component
C29_CallsKeepFrame ==
    \A delegator \in Delegators, delegatee \in Delegatees :
      \A proofs \in {{}, {delegator}} :
        /\ \A fraction \in FractionInputs, valid_until \in ValidUntilInputs :
             LET r == make_delegation(VoteDelegation, proofs, delegator, delegatee,
                                      fraction, valid_until, now)
             IN  IF r.err = Ok
                 THEN Frame(VoteDelegation, r.self, delegator, delegatee)
                 ELSE r.self = VoteDelegation
        /\ LET r == remove_delegation(VoteDelegation, proofs, delegator, delegatee)
           IN  IF r.err = Ok
               THEN Frame(VoteDelegation, r.self, delegator, delegatee)
               ELSE r.self = VoteDelegation

GovernanceOperations ==
    {"make_temperature_check", "make_proposal", "vote_on_temperature_check",
     "vote_on_proposal", "update_governance_parameters"}
VoteDelegationOperations == {"make_delegation", "remove_delegation"}

\* a step changes the state of one component at most: the registry only in a
\* call of the registry, which keeps the frame, and the governance state only
\* in a call of the Governance component
C29_ComponentsApart ==
    /\ delVars' # delVars =>
           /\ calls' # calls
           /\ last'.op \in VoteDelegationOperations
           /\ govVars' = govVars
           /\ Frame(VoteDelegation, [delegatees |-> delegatees', delegators |-> delegators'],
                    last'.args.delegator, last'.args.delegatee)
    /\ govVars' # govVars =>
           /\ calls' # calls
           /\ last'.op \in GovernanceOperations
           /\ delVars' = delVars
    /\ (calls' # calls /\ last'.op \in GovernanceOperations) => delVars' = delVars
    /\ (calls' # calls /\ last'.op \in VoteDelegationOperations) => govVars' = govVars

\* C29: make_delegation(d, e, ..) and remove_delegation(d, e), whether they
\* succeed or fail, leave unchanged every other delegator's list, every entry
\* of d's list whose delegatee is not e (fraction, valid_until and relative
\* order), and every reverse-index entry other than (e, d); the two
\* components share no state, so no governance operation changes the registry
\* and no registry operation changes the governance state.
C29_FrameOfDelegation == [](C29_CallsKeepFrame) /\ [][C29_ComponentsApart]_vars

\* a delegator that has an entry to another delegatee, beside a delegator
\* with a list of its own, has just delegated to a second delegatee
C29_Witness ==
    /\ last.op = "make_delegation"
    /\ last.args.delegator = "a1"
    /\ last.args.delegatee = "a2"
    /\ Len(get_delegations(VoteDelegation, "a1")) = 2
    /\ get_delegations(VoteDelegation, "a1")[1].delegatee = "a3"
    /\ Len(get_delegations(VoteDelegation, "a2")) = 1
    /\ get_delegatee_delegators(VoteDelegation, "a3", "a2") # None

\* the temperature checks that have been elevated
Elevated == {t \in DOMAIN temperature_checks :
                 temperature_checks[t].elevated_proposal_id # None}

\* C30: proposal ids are dense and zero-based: in every reachable state
\* get_proposal_count equals the number of temperature checks whose
\* elevated_proposal_id is present, the set of proposal ids is exactly
\* 0..proposal_count-1, distinct temperature checks are never elevated to the
\* same proposal id, and proposal_count <= temperature_check_count.  The id an
\* elevation returns is the count before it.
C30_DenseProposalIds ==
    /\ get_proposal_count(Governance) = Cardinality(Elevated)
    /\ DOMAIN proposals = 0..(get_proposal_count(Governance) - 1)
    /\ \A t1 \in Elevated, t2 \in Elevated :
         t1 # t2 => temperature_checks[t1].elevated_proposal_id
                        # temperature_checks[t2].elevated_proposal_id
    /\ get_proposal_count(Governance) <= get_temperature_check_count(Governance)
    /\ last.op = "make_proposal" => last.ret = Some(get_proposal_count(Governance) - 1)
    /\ \A t \in DOMAIN temperature_checks \ Elevated :
         LET r == make_proposal(Governance, TRUE, t, now)
         IN  /\ r.ret = Some(get_proposal_count(Governance))
             /\ get_proposal_count(r.self) = get_proposal_count(Governance) + 1
             /\ DOMAIN r.self.proposals = 0..get_proposal_count(Governance)

\* two temperature checks elevated in the order opposite to their creation:
\* the proposal ids follow the order of elevation
C30_Witness ==
    /\ last.op = "make_proposal"
    /\ get_temperature_check_count(Governance) = 2
    /\ get_proposal_count(Governance) = 2
    /\ temperature_checks[1].elevated_proposal_id = Some(0)
    /\ temperature_checks[0].elevated_proposal_id = Some(1)

\* the deadline of a stored ballot has been reached
Closed(ballot) == now >= ballot.deadline

\* in a state where the deadline of a ballot has been reached, no call that
\* can be made now or at a later clock reading changes its votes: every vote
\* on it fails as a closed window, and the other calls leave its votes
C31_ClosedBallotsTakeNoCall ==
    \A clock \in LaterTimes :
      /\ \A t \in DOMAIN temperature_checks :
           Closed(temperature_checks[t]) =>
               /\ \A account \in Voters, vote \in TemperatureCheckVote :
                    LET r == vote_on_temperature_check(Governance, {account}, account, t,
                                                       vote, clock)
                    IN  /\ ErrorKind(r.err) = "WindowClosed"
                        /\ r.self.temperature_checks[t].votes = temperature_checks[t].votes
               /\ make_proposal(Governance, TRUE, t, clock).self.temperature_checks[t].votes
                      = temperature_checks[t].votes
      /\ \A p \in DOMAIN proposals :
           Closed(proposals[p]) =>
               \A account \in Voters, selection \in SelectionInputs :
                    LET r == vote_on_proposal(Governance, {account}, account, p, selection,
                                              clock)
                    IN  /\ r.err # Ok
                        /\ Len(selection) = 1 => ErrorKind(r.err) = "WindowClosed"
                        /\ r.self.proposals[p].votes = proposals[p].votes

\* a step leaves every recorded vote of every stored ballot as it is, and
\* leaves the whole vote store of a ballot whose deadline has been reached
C31_VotesStand ==
    /\ now' >= now
    /\ \A t \in DOMAIN temperature_checks :
         /\ t \in DOMAIN temperature_checks'
         /\ \A account \in DOMAIN temperature_checks[t].votes :
              /\ account \in DOMAIN temperature_checks'[t].votes
              /\ temperature_checks'[t].votes[account] = temperature_checks[t].votes[account]
         /\ Closed(temperature_checks[t]) =>
                temperature_checks'[t].votes = temperature_checks[t].votes
    /\ \A p \in DOMAIN proposals :
         /\ p \in DOMAIN proposals'
         /\ \A account \in DOMAIN proposals[p].votes :
              /\ account \in DOMAIN proposals'[p].votes
              /\ proposals'[p].votes[account] = proposals[p].votes[account]
         /\ Closed(proposals[p]) => proposals'[p].votes = proposals[p].votes

\* C31: with a monotonic clock, a ballot's vote store is frozen once its
\* deadline is reached: in any state where now >= deadline of a temperature
\* check or proposal, no later operation adds, changes or removes a vote of
\* that ballot; before that, the vote store only grows (a recorded vote is
\* never removed or overwritten).
C31_VotesFrozenAtDeadline == [](C31_ClosedBallotsTakeNoCall) /\ [][C31_VotesStand]_vars

\* a temperature check that took a vote in its window has reached its
\* deadline, and a call made after the deadline has returned
C31_Witness ==
    /\ last.op = "make_proposal"
    /\ last.args.id = 0
    /\ temperature_checks[0].deadline > temperature_checks[0].start
    /\ Closed(temperature_checks[0])
    /\ DOMAIN temperature_checks[0].votes # {}

\* C32: elevation is independent of the temperature check's voting:
\* make_proposal succeeds for any existing not-yet-elevated temperature check
\* regardless of the current time relative to its window and regardless of
\* which votes it holds; it changes nothing of the temperature check except
\* elevated_proposal_id (its votes, start and deadline are unchanged), and
\* vote_on_temperature_check on an elevated temperature check is still
\* accepted while its own window is open.
C32_ElevationApartFromVoting ==
    /\ \A t \in DOMAIN temperature_checks \ Elevated, clock \in LaterTimes :
         LET r == make_proposal(Governance, TRUE, t, clock)
             tc == r.self.temperature_checks[t]
         IN  /\ r.err = Ok
             /\ tc.elevated_proposal_id = r.ret
             /\ [tc EXCEPT !.elevated_proposal_id = None] = temperature_checks[t]
             /\ \A other \in DOMAIN temperature_checks \ {t} :
                  r.self.temperature_checks[other] = temperature_checks[other]
             /\ \A later \in {c \in LaterTimes : c >= clock},
                  account \in Voters, vote \in TemperatureCheckVote :
                  LET voted == vote_on_temperature_check(r.self, {account}, account, t,
                                                         vote, later)
                  IN  (WindowOpen(tc, later) /\ account \notin DOMAIN tc.votes) =>
                          /\ voted.err = Ok
                          /\ voted.self.temperature_checks[t].votes =
                                 Insert(tc.votes, account, vote)
    /\ \A t \in Elevated, clock \in LaterTimes, account \in Voters,
          vote \in TemperatureCheckVote :
         LET tc == temperature_checks[t]
             voted == vote_on_temperature_check(Governance, {account}, account, t, vote,
                                                clock)
         IN  (WindowOpen(tc, clock) /\ account \notin DOMAIN tc.votes) =>
                 /\ voted.err = Ok
                 /\ voted.self.temperature_checks[t].elevated_proposal_id =
                        tc.elevated_proposal_id
    /\ last.op = "make_proposal" =>
           \E e \in history.elevated :
               /\ e.id = last.args.id
               /\ \A v \in history.temperature_check_votes :
                    v.id = e.id =>
                        /\ v.account \in DOMAIN temperature_checks[e.id].votes
                        /\ temperature_checks[e.id].votes[v.account] = v.vote

\* a temperature check that held a vote was elevated inside its window, and
\* another account has voted on it since
C32_Witness ==
    /\ last.op = "vote_on_temperature_check"
    /\ last.args.id = 0
    /\ last.args.account = "a2"
    /\ temperature_checks[0].elevated_proposal_id # None
    /\ WindowOpen(temperature_checks[0], now)
    /\ DOMAIN temperature_checks[0].votes = {"a1", "a2"}

=============================================================================
